---- MODULE Spec2Model ----
(***************************************************************************)
(* A model of the Palo Alto firewall-upgrade helper library:               *)
(*   - filter_plugins/panos_filters.py       (version filters)             *)
(*   - library/module_utils/panos_common.py  (versions, XML, job polling)  *)
(*   - library/module_utils/panos_api_client.py (the API client)           *)
(*                                                                         *)
(* Python strings that the code inspects character by character (version   *)
(* strings, element text) are sequences of one-character strings.  Strings *)
(* the code only compares whole (tags, attribute values, error codes) are  *)
(* TLA+ strings.  A Python value of dynamic shape is a tagged record:      *)
(*   [t |-> "null"]                None                                    *)
(*   [t |-> "str",  v |-> chars]   str                                     *)
(*   [t |-> "map",  m |-> f]       dict, f a function on its keys          *)
(*   [t |-> "list", l |-> seq]     list                                    *)
(***************************************************************************)
EXTENDS Integers, Sequences, FiniteSets, TLC

VARIABLES
    \* ---- version functions (pure): the two arguments and the last result
    va, vb, verOut,
    \* ---- PanosApiClient: the instance's fields and the HTTP calls it issued
    constructed, ctor_api_key, username, password, api_key, wire, lastOp, nOps,
    \* ---- wait_for_job: the loop's locals, the clock and how the call ended
    jobPc, start_time, now, elapsed, timeout, poll_interval, fetches, jobEnd,
    \* ---- a response body handed to the normaliser, to extract_ha_info and to
    \* the device lookups, and the last result
    doc, docOut,
    \* ---- callers sharing one PanosApiClient instance: where each is in
    \* _make_request, whether two calls ever overlapped, and the key
    \* exchanges that succeeded
    callers, overlapped, exchanged

vars == <<va, vb, verOut,
          constructed, ctor_api_key, username, password, api_key, wire, lastOp, nOps,
          jobPc, start_time, now, elapsed, timeout, poll_interval, fetches, jobEnd,
          doc, docOut, callers, overlapped, exchanged>>

verVars    == <<va, vb, verOut>>
clientVars == <<constructed, ctor_api_key, username, password, api_key, wire, lastOp, nOps>>
jobVars    == <<jobPc, start_time, now, elapsed, timeout, poll_interval, fetches, jobEnd>>
docVars    == <<doc, docOut>>
concVars   == <<callers, overlapped, exchanged>>

-----------------------------------------------------------------------------
(* Python values *)

PyNone     == [t |-> "null"]
PyStr(s)   == [t |-> "str", v |-> s]
PyMap(f)   == [t |-> "map", m |-> f]
PyList(q)  == [t |-> "list", l |-> q]
EmptyFn    == [k \in {} |-> PyNone]
EmptyDict  == PyMap(EmptyFn)

\* d[k] = v on the key function of a dict
MapPut(f, k, v) == [x \in (DOMAIN f) \cup {k} |-> IF x = k THEN v ELSE f[x]]

\* d.update(g)
MapUpdate(f, g) ==
    [x \in (DOMAIN f) \cup (DOMAIN g) |-> IF x \in DOMAIN g THEN g[x] ELSE f[x]]

\* bool(x) for the value shapes above: None, "", {} and [] are falsy
Truthy(x) ==
    CASE x.t = "null" -> FALSE
      [] x.t = "str"  -> Len(x.v) > 0
      [] x.t = "map"  -> DOMAIN x.m # {}
      [] x.t = "list" -> Len(x.l) > 0

-----------------------------------------------------------------------------
(* Characters *)

DigitChars == {"0", "1", "2", "3", "4", "5", "6", "7", "8", "9"}
SpaceChars == {" ", "\t", "\n"}

DigitVal(c) ==
    CASE c = "0" -> 0 [] c = "1" -> 1 [] c = "2" -> 2 [] c = "3" -> 3
      [] c = "4" -> 4 [] c = "5" -> 5 [] c = "6" -> 6 [] c = "7" -> 7
      [] c = "8" -> 8 [] c = "9" -> 9

\* int(text) for a non-empty run of decimal digits
RECURSIVE IntOf(_)
IntOf(s) ==
    IF Len(s) = 0 THEN 0
    ELSE 10 * IntOf(SubSeq(s, 1, Len(s) - 1)) + DigitVal(s[Len(s)])

\* str.strip(): drop leading and trailing whitespace
RECURSIVE LStrip(_)
LStrip(s) ==
    IF Len(s) > 0 /\ s[1] \in SpaceChars THEN LStrip(Tail(s)) ELSE s

RECURSIVE RStrip(_)
RStrip(s) ==
    IF Len(s) > 0 /\ s[Len(s)] \in SpaceChars
    THEN RStrip(SubSeq(s, 1, Len(s) - 1)) ELSE s

Strip(s) == RStrip(LStrip(s))

-----------------------------------------------------------------------------
(* Version parsing and comparison *)

At(s, i) == IF i \in 1..Len(s) THEN s[i] ELSE ""

\* index just past the longest run of digits of s that starts at index i
RECURSIVE DigitRunEnd(_, _)
DigitRunEnd(s, i) ==
    IF At(s, i) \in DigitChars THEN DigitRunEnd(s, i + 1) ELSE i

\* index just past an optional group (?:-<letter>(\d+))? tried at index i;
\* i itself when the group does not match there
OptGroupEnd(s, i, letter) ==
    IF At(s, i) = "-" /\ At(s, i + 1) = letter /\ DigitRunEnd(s, i + 2) > i + 2
    THEN DigitRunEnd(s, i + 2) ELSE i

\* int(match.group(n)) if match.group(n) else 0, for the group tried at i
OptGroupInt(s, i, letter) ==
    IF OptGroupEnd(s, i, letter) > i
    THEN IntOf(SubSeq(s, i + 2, OptGroupEnd(s, i, letter) - 1)) ELSE 0

\* re.match(r'^(\d+)\.(\d+)\.(\d+)(?:-h(\d+))?(?:-c(\d+))?$', s), group by
\* group: e1, e2, e3 are the indexes just past major, minor, patch and eh the
\* index just past the optional hotfix group
MatchEnd(s, e1, e2, e3, eh) ==
    IF OptGroupEnd(s, eh, "c") = Len(s) + 1
    THEN PyMap([major     |-> IntOf(SubSeq(s, 1, e1 - 1)),
                minor     |-> IntOf(SubSeq(s, e1 + 1, e2 - 1)),
                patch     |-> IntOf(SubSeq(s, e2 + 1, e3 - 1)),
                hotfix    |-> OptGroupInt(s, e3, "h"),
                candidate |-> OptGroupInt(s, eh, "c"),
                raw       |-> s])
    ELSE PyNone

MatchPatch(s, e1, e2, e3) ==
    IF e3 > e2 + 1 THEN MatchEnd(s, e1, e2, e3, OptGroupEnd(s, e3, "h")) ELSE PyNone

MatchMinor(s, e1, e2) ==
    IF e2 > e1 + 1 /\ At(s, e2) = "."
    THEN MatchPatch(s, e1, e2, DigitRunEnd(s, e2 + 1)) ELSE PyNone

MatchMajor(s, e1) ==
    IF e1 > 1 /\ At(s, e1) = "."
    THEN MatchMinor(s, e1, DigitRunEnd(s, e1 + 1)) ELSE PyNone

VersionMatch(s) == MatchMajor(s, DigitRunEnd(s, 1))

\* filter_plugins/panos_filters.py: parse_panos_version
parse_panos_version(version_string) ==
    IF ~Truthy(version_string) THEN PyNone
    ELSE VersionMatch(Strip(version_string.v))

\* module_utils/panos_common.py: parse_panos_version (a second copy, same text)
common_parse_panos_version(version_string) ==
    IF ~Truthy(version_string) THEN PyNone
    ELSE VersionMatch(Strip(version_string.v))

\* mutant: the candidate number takes part in the ordering
CompareKeyOrder_WithCandidate == <<"major", "minor", "patch", "hotfix", "candidate">>

CompareKeyOrder == <<"major", "minor", "patch", "hotfix">>

\* mutant: the elif branch is missing, a greater component is skipped
RECURSIVE CompareLoop_NoGreater(_, _, _)
CompareLoop_NoGreater(v1, v2, keys) ==
    IF Len(keys) = 0 THEN 0
    ELSE IF v1[Head(keys)] < v2[Head(keys)] THEN -1
    ELSE CompareLoop_NoGreater(v1, v2, Tail(keys))

\* for key in [...]: if v1[key] < v2[key]: return -1 / elif >: return 1; return 0
RECURSIVE CompareLoop(_, _, _)
CompareLoop(v1, v2, keys) ==
    IF Len(keys) = 0 THEN 0
    ELSE IF v1[Head(keys)] < v2[Head(keys)] THEN -1
    ELSE IF v1[Head(keys)] > v2[Head(keys)] THEN 1
    ELSE CompareLoop(v1, v2, Tail(keys))

\* Results of calls: a returned value, or a raised exception
Returned(v)      == [exc |-> "none", val |-> v]
RaisedPanos(c)   == [exc |-> "PanosException", code |-> c]
RaisedPanosWith(c, d) == [exc |-> "PanosException", code |-> c, details |-> d]
RaisedAttrError  == [exc |-> "AttributeError"]
PyInt(n)         == [t |-> "int", v |-> n]

\* lines 55-64 of panos_version_compare, on the two parse results
filter_compare_parsed(v1, v2) ==
    IF ~Truthy(v1) \/ ~Truthy(v2) THEN PyNone
    ELSE PyInt(CompareLoop(v1.m, v2.m, CompareKeyOrder))

\* filter_plugins/panos_filters.py: returns -1/0/1, or None (as PyNone)
panos_version_compare(version1, version2) ==
    filter_compare_parsed(parse_panos_version(version1), parse_panos_version(version2))

\* lines 111-124 of compare_versions, on the two parse results
strict_compare_parsed(v1, v2) ==
    IF ~Truthy(v1) \/ ~Truthy(v2) THEN RaisedPanos("INVALID_VERSION")
    ELSE Returned(CompareLoop(v1.m, v2.m, CompareKeyOrder))

\* module_utils/panos_common.py: returns -1/0/1 or raises INVALID_VERSION
compare_versions(version1, version2) ==
    strict_compare_parsed(common_parse_panos_version(version1),
                          common_parse_panos_version(version2))

\* result is not None and result <op> 0
NotNoneAndGte(result) == result # PyNone /\ result.v >= 0
NotNoneAndLte(result) == result # PyNone /\ result.v <= 0
NotNoneAndGt(result)  == result # PyNone /\ result.v > 0
NotNoneAndLt(result)  == result # PyNone /\ result.v < 0
\* mutant: None counts as equal (fails open)
NotNoneAndEq_FailOpen(result) == result = PyNone \/ result.v = 0
NotNoneAndEq(result)  == result # PyNone /\ result.v = 0

panos_version_gte(version1, version2) ==
    NotNoneAndGte(panos_version_compare(version1, version2))

panos_version_lte(version1, version2) ==
    NotNoneAndLte(panos_version_compare(version1, version2))

panos_version_gt(version1, version2) ==
    NotNoneAndGt(panos_version_compare(version1, version2))

panos_version_lt(version1, version2) ==
    NotNoneAndLt(panos_version_compare(version1, version2))

panos_version_eq(version1, version2) ==
    NotNoneAndEq(panos_version_compare(version1, version2))

-----------------------------------------------------------------------------
(* Specification SpecVer: the version functions applied to bounded inputs *)

\* components of generated version strings range over 0..MaxVerNum
MaxVerNum == 1

DigitSeq == <<"0", "1", "2", "3", "4", "5", "6", "7", "8", "9">>

\* the decimal text of a natural number
RECURSIVE Dec(_)
Dec(n) == IF n < 10 THEN <<DigitSeq[n + 1]>>
          ELSE Dec(n \div 10) \o <<DigitSeq[(n % 10) + 1]>>

\* "major.minor.patch[-hH][-cC]"; h or c below 0 leaves the suffix out
FormatVersion(ma, mi, pa, h, c) ==
    Dec(ma) \o <<".">> \o Dec(mi) \o <<".">> \o Dec(pa)
      \o (IF h < 0 THEN <<>> ELSE <<"-", "h">> \o Dec(h))
      \o (IF c < 0 THEN <<>> ELSE <<"-", "c">> \o Dec(c))

\* an argument: the text handed to the function, the (major, minor, patch,
\* hotfix) it denotes under the release-numbering grammar (<<>> when the text
\* is not a version) and its candidate number (0 when it has none)
VersionArg(text, fields, cand) ==
    [text |-> PyStr(text), fields |-> fields, cand |-> cand]

GeneratedArgs ==
    { VersionArg(FormatVersion(ma, mi, pa, h, c),
                 <<ma, mi, pa, IF h < 0 THEN 0 ELSE h>>, IF c < 0 THEN 0 ELSE c) :
        ma \in {0, MaxVerNum}, mi \in {0, MaxVerNum}, pa \in 0..MaxVerNum,
        h \in -1..MaxVerNum, c \in {-1, MaxVerNum} }

HandArgs ==
    { [text |-> PyNone, fields |-> <<>>, cand |-> 0],
      VersionArg(<<>>, <<>>, 0),
      VersionArg(<<"b", "a", "d">>, <<>>, 0),
      VersionArg(<<"1", ".", "0">>, <<>>, 0),
      VersionArg(<<"1", ".", "0", ".", "0", "-", "h">>, <<>>, 0),
      VersionArg(<<"1", ".", "0", ".", "0", "-", "c", "1", "-", "h", "1">>, <<>>, 0),
      VersionArg(<<"1", ".", "0", ".", "0", "x">>, <<>>, 0),
      VersionArg(<<"v", "1", ".", "0", ".", "0">>, <<>>, 0),
      VersionArg(<<"1", ".", ".", "0">>, <<>>, 0),
      VersionArg(<<"1", ".", "0", ".", "0", ".", "0">>, <<>>, 0),
      VersionArg(<<"1", ".", "0", ".", "0", " ", "-", "h", "1">>, <<>>, 0),
      VersionArg(<<" ", "1", ".", "0", ".", "1", " ">>, <<1, 0, 1, 0>>, 0),
      VersionArg(<<"0", "1", ".", "0", ".", "0">>, <<1, 0, 0, 0>>, 0),
      VersionArg(<<"1", "0", ".", "1", ".", "5">>, <<10, 1, 5, 0>>, 0),
      VersionArg(<<"9", ".", "1", ".", "5">>, <<9, 1, 5, 0>>, 0),
      VersionArg(<<"1", "0", ".", "1", ".", "5", "-", "h", "2", "-", "c", "3">>, <<10, 1, 5, 2>>, 3),
      VersionArg(<<"1", "0", ".", "1", ".", "5", "-", "h", "1", "0">>, <<10, 1, 5, 10>>, 0) }

VersionArgs == GeneratedArgs \cup HandArgs

NoVerOut == [op |-> "none"]

VerIdle == /\ va = [text |-> PyNone, fields |-> <<>>, cand |-> 0]
           /\ vb = [text |-> PyNone, fields |-> <<>>, cand |-> 0]
           /\ verOut = NoVerOut

VerInit == /\ va \in VersionArgs
           /\ vb \in VersionArgs
           /\ verOut = NoVerOut

\* {{ a | panos_version_compare(b) }}, in both argument orders and on (a, a)
ApplyFilterCompare ==
    /\ verOut' = [op |-> "panos_version_compare",
                  ab |-> panos_version_compare(va.text, vb.text),
                  ba |-> panos_version_compare(vb.text, va.text),
                  aa |-> panos_version_compare(va.text, va.text)]
    /\ UNCHANGED <<va, vb>>
    /\ UNCHANGED <<clientVars, jobVars, docVars, concVars>>

\* compare_versions(a, b), in both argument orders and on (a, a)
ApplyStrictCompare ==
    /\ verOut' = [op |-> "compare_versions",
                  ab |-> compare_versions(va.text, vb.text),
                  ba |-> compare_versions(vb.text, va.text),
                  aa |-> compare_versions(va.text, va.text)]
    /\ UNCHANGED <<va, vb>>
    /\ UNCHANGED <<clientVars, jobVars, docVars, concVars>>

\* the five predicate filters on (a, b), and the reflexive ones on (a, a)
ApplyPredicates ==
    /\ verOut' = [op |-> "predicates",
                  gte |-> panos_version_gte(va.text, vb.text),
                  lte |-> panos_version_lte(va.text, vb.text),
                  gt  |-> panos_version_gt(va.text, vb.text),
                  lt  |-> panos_version_lt(va.text, vb.text),
                  eq  |-> panos_version_eq(va.text, vb.text),
                  gte_aa |-> panos_version_gte(va.text, va.text),
                  lte_aa |-> panos_version_lte(va.text, va.text),
                  eq_aa  |-> panos_version_eq(va.text, va.text)]
    /\ UNCHANGED <<va, vb>>
    /\ UNCHANGED <<clientVars, jobVars, docVars, concVars>>


-----------------------------------------------------------------------------
(* XML documents and their normalisation *)

\* an xml.etree Element: attrib is a function from attribute names to
\* character sequences, text is PyNone or PyStr, children a sequence
Elem(tag, attrib, text, children) ==
    [tag |-> tag, attrib |-> attrib, text |-> text, children |-> children]

NoAttr == [k \in {} |-> <<>>]
Leaf(tag, chars) == Elem(tag, NoAttr, PyStr(chars), <<>>)
Empty(tag)       == Elem(tag, NoAttr, PyNone, <<>>)
Node(tag, kids)  == Elem(tag, NoAttr, PyNone, kids)

RECURSIVE xml_element_to_dict(_)
RECURSIVE ChildLoop(_, _)

\* mutant: an empty element is not appended to the list of its same-named
\* siblings
RECURSIVE ChildLoop_SkipEmpty(_, _)
ChildLoop_SkipEmpty(children, child_dict) ==
    IF Len(children) = 0 THEN child_dict
    ELSE LET child      == Head(children)
             child_data == xml_element_to_dict(child)
         IN  ChildLoop_SkipEmpty(Tail(children),
                IF child.tag \in DOMAIN child_dict
                THEN IF child_data = PyNone THEN child_dict
                     ELSE [child_dict EXCEPT ![child.tag] =
                             IF @.t = "list" THEN PyList(Append(@.l, child_data))
                             ELSE PyList(<<@, child_data>>)]
                ELSE MapPut(child_dict, child.tag, child_data))

\* the "for child in children" loop of xml_element_to_dict
ChildLoop(children, child_dict) ==
    IF Len(children) = 0 THEN child_dict
    ELSE LET child      == Head(children)
             child_data == xml_element_to_dict(child)
         IN  ChildLoop(Tail(children),
                IF child.tag \in DOMAIN child_dict
                THEN [child_dict EXCEPT ![child.tag] =
                        IF @.t = "list" THEN PyList(Append(@.l, child_data))
                        ELSE PyList(<<@, child_data>>)]
                ELSE MapPut(child_dict, child.tag, child_data))

xml_element_to_dict(element) ==
    LET withAttrs ==
            IF DOMAIN element.attrib # {}
            THEN MapPut(EmptyFn, "@attributes",
                        PyMap([a \in DOMAIN element.attrib |-> PyStr(element.attrib[a])]))
            ELSE EmptyFn
        result ==
            IF Len(element.children) > 0
            THEN MapUpdate(withAttrs, ChildLoop(element.children, EmptyFn))
            ELSE withAttrs
        hasText == Truthy(element.text) /\ Len(Strip(element.text.v)) > 0
    IN  IF hasText
        THEN IF DOMAIN result # {}
             THEN PyMap(MapPut(result, "#text", PyStr(Strip(element.text.v))))
             ELSE PyStr(Strip(element.text.v))
        ELSE IF DOMAIN result # {} THEN PyMap(result) ELSE PyNone

\* the descendants of a sequence of sibling elements, in document order
RECURSIVE DescendantsOf(_)
DescendantsOf(siblings) ==
    IF Len(siblings) = 0 THEN <<>>
    ELSE <<Head(siblings)>> \o DescendantsOf(Head(siblings).children)
                            \o DescendantsOf(Tail(siblings))

\* element.findall('.//tag')
FindAll(element, tag) ==
    LET d == DescendantsOf(element.children)
    IN  SelectSeq(d, LAMBDA e : e.tag = tag)

\* '\n'.join(line.text for line in lines if line.text)
RECURSIVE JoinLines(_)
JoinLines(lines) ==
    IF Len(lines) = 0 THEN <<>>
    ELSE IF Len(lines) = 1 THEN Head(lines).text.v
    ELSE Head(lines).text.v \o <<"\n">> \o JoinLines(Tail(lines))

S_success == <<"s", "u", "c", "c", "e", "s", "s">>
S_unknown == <<"u", "n", "k", "n", "o", "w", "n">>

\* root.get(name, default)
AttrGet(element, name, default) ==
    IF name \in DOMAIN element.attrib THEN PyStr(element.attrib[name]) ELSE default

\* the message of parse_xml_response
MessageOf(root) ==
    LET msgs == FindAll(root, "msg")
    IN  IF Len(msgs) = 0 THEN PyNone
        ELSE LET msg_elem == Head(msgs)
                 lines    == FindAll(msg_elem, "line")
             IN  IF Truthy(msg_elem.text) THEN msg_elem.text
                 ELSE IF Len(lines) > 0
                      THEN PyStr(JoinLines(SelectSeq(lines, LAMBDA e : Truthy(e.text))))
                      ELSE PyNone

\* a response body: well-formed XML with a root element, or not well-formed
XmlBody(root) == [wellformed |-> TRUE, root |-> root]
BadBody       == [wellformed |-> FALSE]

\* parse_xml_response: the result dict always has the five keys, so that
\* response.get('data', {}) is response['data'], also when that is None
parse_xml_response(xml_string) ==
    IF ~xml_string.wellformed THEN RaisedPanos("XML_PARSE_ERROR")
    ELSE LET root    == xml_string.root
             status  == AttrGet(root, "status", PyStr(S_unknown))
             results == FindAll(root, "result")
         IN  Returned([status  |-> status,
                       code    |-> AttrGet(root, "code", PyNone),
                       success |-> (status = PyStr(S_success)),
                       data    |-> IF Len(results) > 0
                                   THEN xml_element_to_dict(Head(results))
                                   ELSE EmptyDict,
                       message |-> MessageOf(root)])

\* d.get(key, default) on a parsed value; None and str have no .get
PyGet(d, key, default) ==
    IF d.t = "map"
    THEN Returned(IF key \in DOMAIN d.m THEN d.m[key] ELSE default)
    ELSE RaisedAttrError


NoDocOut == [op |-> "none"]

\* no response body has been handed over
DocIdle == /\ doc = BadBody
           /\ docOut = NoDocOut

\* the callers of the concurrent specification, none of them in a call
Callers == {1, 2}

NoCaller == [pc |-> "idle", key |-> PyNone, calls |-> 0, last |-> "none"]

ConcIdle == /\ callers = [c \in Callers |-> NoCaller]
            /\ overlapped = FALSE
            /\ exchanged = 0

-----------------------------------------------------------------------------
(* is_upgrade_path_valid *)

\* the tuple (is_valid, required_intermediate_versions)
PathResult(is_valid, intermediates) ==
    Returned([valid |-> is_valid, intermediates |-> intermediates])

EmptyList == PyList(<<>>)

\* f"{v['major']}.{v['minor']}"
major_minor(v) == Dec(v.m.major) \o <<".">> \o Dec(v.m.minor)

\* x in a_list
InList(x, a_list) == \E i \in 1..Len(a_list.l) : a_list.l[i] = x

\* lines 163-167: the intermediate_required map of the entry
check_intermediate(intermediate, target_major_minor) ==
    IF target_major_minor \in DOMAIN intermediate.m
    THEN PathResult(TRUE, intermediate.m[target_major_minor])
    ELSE PathResult(FALSE, EmptyList)

\* mutant: intermediate_required is looked at before direct_upgrade_to
check_entry_IntermediateFirst(entry, target_major_minor) ==
    IF target_major_minor \in DOMAIN PyGet(entry, "intermediate_required", EmptyDict).val.m
    THEN PathResult(TRUE, PyGet(entry, "intermediate_required", EmptyDict).val.m[target_major_minor])
    ELSE IF InList(PyStr(target_major_minor), PyGet(entry, "direct_upgrade_to", EmptyList).val)
    THEN PathResult(TRUE, EmptyList)
    ELSE PathResult(FALSE, EmptyList)

\* lines 158-165: the matrix entry of the current major.minor
check_entry(entry, target_major_minor) ==
    IF InList(PyStr(target_major_minor), PyGet(entry, "direct_upgrade_to", EmptyList).val)
    THEN PathResult(TRUE, EmptyList)
    ELSE check_intermediate(PyGet(entry, "intermediate_required", EmptyDict).val,
                            target_major_minor)

\* lines 157-167: the matrix lookup, given the two "major.minor" keys
lookup_path(current_major_minor, target_major_minor, version_matrix) ==
    IF current_major_minor \in DOMAIN version_matrix.m
    THEN check_entry(version_matrix.m[current_major_minor], target_major_minor)
    ELSE PathResult(FALSE, EmptyList)

\* mutant: the same-version check is missing, equal versions go to the matrix
path_compared_NoSameCheck(same, down, current, target, version_matrix) ==
    IF down.exc # "none" THEN down
    ELSE IF down.val > 0 THEN PathResult(FALSE, EmptyList)
    ELSE lookup_path(major_minor(current), major_minor(target), version_matrix)

\* lines 146-167: same and down are the results of the two calls of
\* compare_versions (lines 146 and 150); an exception of either propagates
path_compared(same, down, current, target, version_matrix) ==
    IF same.exc # "none" THEN same
    ELSE IF same.val = 0 THEN PathResult(TRUE, EmptyList)
    ELSE IF down.exc # "none" THEN down
    ELSE IF down.val > 0 THEN PathResult(FALSE, EmptyList)
    ELSE lookup_path(major_minor(current), major_minor(target), version_matrix)

\* mutant: the "if not current or not target" return is missing
path_parsed_NoGuard(current, target, current_version, target_version, version_matrix) ==
    path_compared(compare_versions(current_version, target_version),
                  compare_versions(current_version, target_version),
                  current, target, version_matrix)

\* lines 142-167, given the two parse results of lines 139-140
path_parsed(current, target, current_version, target_version, version_matrix) ==
    IF ~Truthy(current) \/ ~Truthy(target) THEN PathResult(FALSE, EmptyList)
    ELSE path_compared(compare_versions(current_version, target_version),
                       compare_versions(current_version, target_version),
                       current, target, version_matrix)

is_upgrade_path_valid(current_version, target_version, version_matrix) ==
    path_parsed(common_parse_panos_version(current_version),
                common_parse_panos_version(target_version),
                current_version, target_version, version_matrix)

(* Specification SpecPath: is_upgrade_path_valid applied to bounded inputs *)

\* the "major.minor" key of a matrix
MatrixKey(ma, mi) == Dec(ma) \o <<".">> \o Dec(mi)

KeyList(keys) == PyList([i \in 1..Len(keys) |-> PyStr(keys[i])])

\* one matrix entry; a part given as PyNone is left out of the entry
MatrixEntry(direct, intermediate) ==
    PyMap([k \in (IF direct = PyNone THEN {} ELSE {"direct_upgrade_to"})
                 \cup (IF intermediate = PyNone THEN {} ELSE {"intermediate_required"}) |->
             IF k = "direct_upgrade_to" THEN direct ELSE intermediate])

K_10_1 == <<"1", "0", ".", "1">>
K_10_2 == <<"1", "0", ".", "2">>
K_11_0 == <<"1", "1", ".", "0">>

Matrices ==
    { EmptyDict,
      \* the example of the design's testable properties
      PyMap([k \in {K_10_1} |->
               MatrixEntry(KeyList(<<K_10_2>>),
                           PyMap([t \in {K_11_0} |-> KeyList(<<K_10_2>>)]))]),
      PyMap([k \in {MatrixKey(0, 0)} |->
               MatrixEntry(KeyList(<<MatrixKey(0, MaxVerNum)>>),
                           PyMap([t \in {MatrixKey(MaxVerNum, 0)} |->
                                    KeyList(<<MatrixKey(0, MaxVerNum)>>)]))]),
      \* a target that is both direct and intermediate, a major.minor listed
      \* for itself, and an entry without either part
      PyMap([k \in {MatrixKey(0, 0), MatrixKey(0, MaxVerNum)} |->
               IF k = MatrixKey(0, 0)
               THEN MatrixEntry(KeyList(<<MatrixKey(0, 0), MatrixKey(MaxVerNum, 0)>>),
                                PyMap([t \in {MatrixKey(MaxVerNum, 0), MatrixKey(MaxVerNum, MaxVerNum)} |->
                                         IF t = MatrixKey(MaxVerNum, 0)
                                         THEN KeyList(<<MatrixKey(0, MaxVerNum)>>)
                                         ELSE KeyList(<<MatrixKey(0, MaxVerNum), MatrixKey(MaxVerNum, 0)>>)]))
               ELSE MatrixEntry(PyNone, PyNone)]),
      \* an intermediate path with no step, and entries with one part only
      PyMap([k \in {MatrixKey(0, MaxVerNum), K_10_1} |->
               IF k = K_10_1
               THEN MatrixEntry(KeyList(<<K_10_1, K_11_0>>), PyNone)
               ELSE MatrixEntry(PyNone,
                                PyMap([t \in {MatrixKey(0, MaxVerNum)} |-> EmptyList]))]) }

PathGeneratedArgs ==
    { VersionArg(FormatVersion(ma, mi, pa, h, -1),
                 <<ma, mi, pa, IF h < 0 THEN 0 ELSE h>>, 0) :
        ma \in {0, MaxVerNum}, mi \in {0, MaxVerNum}, pa \in {0, MaxVerNum},
        h \in {-1, MaxVerNum} }

PathHandArgs ==
    { [text |-> PyNone, fields |-> <<>>, cand |-> 0],
      VersionArg(<<>>, <<>>, 0),
      VersionArg(<<"b", "a", "d">>, <<>>, 0),
      VersionArg(<<"1", "0", ".", "1">>, <<>>, 0),
      VersionArg(<<"1", "0", ".", "1", ".", "0">>, <<10, 1, 0, 0>>, 0),
      VersionArg(<<" ", "1", "0", ".", "1", ".", "5", " ">>, <<10, 1, 5, 0>>, 0),
      VersionArg(<<"0", "1", "0", ".", "0", "1", ".", "0">>, <<10, 1, 0, 0>>, 0),
      VersionArg(<<"1", "0", ".", "1", ".", "0", "-", "c", "2">>, <<10, 1, 0, 0>>, 2),
      VersionArg(<<"1", "0", ".", "0", ".", "0">>, <<10, 0, 0, 0>>, 0),
      VersionArg(<<"1", "1", ".", "0", ".", "0">>, <<11, 0, 0, 0>>, 0),
      VersionArg(<<"1", "2", ".", "0", ".", "0">>, <<12, 0, 0, 0>>, 0) }

PathArgs == PathGeneratedArgs \cup PathHandArgs

PathInit == /\ va \in PathArgs
            /\ vb \in PathArgs
            /\ verOut = NoVerOut

\* is_upgrade_path_valid(a, b, matrix)
ApplyUpgradePath ==
    /\ \E version_matrix \in Matrices :
          verOut' = [op     |-> "is_upgrade_path_valid",
                     matrix |-> version_matrix,
                     out    |-> is_upgrade_path_valid(va.text, vb.text, version_matrix)]
    /\ UNCHANGED <<va, vb>>
    /\ UNCHANGED <<clientVars, jobVars, docVars, concVars>>


-----------------------------------------------------------------------------
(* PanosApiClient *)

\* what urlopen(...) followed by response.read() does for one HTTP call:
\* raises URLError (no connection), raises HTTPError (a non-2xx status; a
\* subclass of URLError), or yields a body
NetURLError           == [k |-> "URLError"]
NetHTTPError(c, r)    == [k |-> "HTTPError", code |-> c, reason |-> r]
NetBody(body)         == [k |-> "body", body |-> body]
NetUnused             == [k |-> "unused"]

\* the instance's fields that the request path reads
Self == [username |-> username, password |-> password, api_key |-> api_key]

\* the three ways _get_api_key ends: self.api_key is assigned only in the last
KeyHeld(self) ==
    [result |-> Returned(self.api_key), api_key |-> self.api_key, sent |-> <<>>]
KeyFailed(self, r, sent) ==
    [result |-> r, api_key |-> self.api_key, sent |-> sent]
\* mutant: the assignment self.api_key = key is missing
KeyStored_NotCached(key, sent) ==
    [result |-> Returned(key), api_key |-> PyNone, sent |-> sent]
KeyStored(key, sent) ==
    [result |-> Returned(key), api_key |-> key, sent |-> sent]

\* lines 113-122: key = parsed.get('data', {}).get('key'), given that lookup
store_key(self, sent, key) ==
    IF key.exc # "none" THEN KeyFailed(self, key, sent)
    ELSE IF ~Truthy(key.val) THEN KeyFailed(self, RaisedPanos("KEYGEN_NO_KEY"), sent)
    ELSE KeyStored(key.val, sent)

\* lines 104-122: what _get_api_key does with the parsed key-exchange answer
read_keygen(self, sent, parsed) ==
    IF parsed.exc # "none" THEN KeyFailed(self, parsed, sent)
    ELSE IF ~parsed.val.success THEN KeyFailed(self, RaisedPanos("KEYGEN_FAILED"), sent)
    ELSE store_key(self, sent, PyGet(parsed.val.data, "key", PyNone))

\* lines 95-129: the key-exchange call; except urllib.error.URLError also
\* catches HTTPError, its subclass
exchange_key(self, sent, net) ==
    IF net.k \in {"URLError", "HTTPError"}
    THEN KeyFailed(self, RaisedPanos("CONNECTION_ERROR"), sent)
    ELSE read_keygen(self, sent, parse_xml_response(net.body))

\* mutant: the held key is not looked at, the key is always exchanged
get_api_key_AlwaysExchange(self, net) ==
    IF ~Truthy(self.username) \/ ~Truthy(self.password)
    THEN KeyFailed(self, RaisedPanos("AUTH_MISSING"), <<>>)
    ELSE exchange_key(self, <<[type |-> "keygen", user |-> self.username]>>, net)

\* _get_api_key: the result, the value of self.api_key afterwards, and the
\* HTTP calls issued; net is what the key-exchange call meets if it is issued
get_api_key(self, net) ==
    IF Truthy(self.api_key) THEN KeyHeld(self)
    ELSE IF ~Truthy(self.username) \/ ~Truthy(self.password)
    THEN KeyFailed(self, RaisedPanos("AUTH_MISSING"), <<>>)
    ELSE exchange_key(self, <<[type |-> "keygen", user |-> self.username]>>, net)

\* mutant: a command call that meets a transport failure is sent again
send_command_RetryOnError(k, net2) ==
    [api_key |-> k.api_key,
     sent    |-> IF net2.k \in {"HTTPError", "URLError"}
                 THEN k.sent \o <<[type |-> "command", key |-> k.result.val],
                                  [type |-> "command", key |-> k.result.val]>>
                 ELSE Append(k.sent, [type |-> "command", key |-> k.result.val]),
     result  |-> IF net2.k = "HTTPError"
                 THEN RaisedPanosWith("HTTP_ERROR",
                            [code |-> net2.code, reason |-> net2.reason])
                 ELSE IF net2.k = "URLError"
                 THEN RaisedPanos("CONNECTION_ERROR")
                 ELSE parse_xml_response(net2.body)]

\* mutant: a command call that fails drops the held key
send_command_ForgetsKeyOnError(k, net2) ==
    [api_key |-> IF net2.k = "body" /\ net2.body.wellformed THEN k.api_key ELSE PyNone,
     sent    |-> Append(k.sent, [type |-> "command", key |-> k.result.val]),
     result  |-> IF net2.k = "HTTPError"
                 THEN RaisedPanosWith("HTTP_ERROR",
                            [code |-> net2.code, reason |-> net2.reason])
                 ELSE IF net2.k = "URLError"
                 THEN RaisedPanos("CONNECTION_ERROR")
                 ELSE parse_xml_response(net2.body)]

\* lines 144-181 of _make_request: the command call, once _get_api_key
\* has returned k
send_command(k, net2) ==
    [api_key |-> k.api_key,
     sent    |-> Append(k.sent, [type |-> "command", key |-> k.result.val]),
     result  |-> IF net2.k = "HTTPError"
                 THEN RaisedPanosWith("HTTP_ERROR",
                            [code |-> net2.code, reason |-> net2.reason])
                 ELSE IF net2.k = "URLError"
                 THEN RaisedPanos("CONNECTION_ERROR")
                 ELSE parse_xml_response(net2.body)]

\* line 143 of _make_request: an exception of _get_api_key propagates
after_key(k, net2) ==
    IF k.result.exc # "none" THEN k ELSE send_command(k, net2)

\* _make_request: net1 is what the key-exchange call meets, net2 what the
\* command call meets (each matters only if that call is issued)
make_request(self, net1, net2) == after_key(get_api_key(self, net1), net2)

\* lines 433-441 of test_connectivity: system is the result of
\* response.get('data', {}).get('system', {})
connected_record(system) ==
    IF system.exc # "none" THEN system
    ELSE IF system.val.t # "map" THEN RaisedAttrError
    ELSE Returned([connected  |-> TRUE,
                   hostname   |-> PyGet(system.val, "hostname", PyStr(<<>>)).val,
                   model      |-> PyGet(system.val, "model", PyStr(<<>>)).val,
                   serial     |-> PyGet(system.val, "serial", PyStr(<<>>)).val,
                   sw_version |-> PyGet(system.val, "sw-version", PyStr(<<>>)).val,
                   uptime     |-> PyGet(system.val, "uptime", PyStr(<<>>)).val])

\* test_connectivity, given what get_system_info did: only PanosException
\* is caught
ConnectivityRecord(response) ==
    IF response.exc = "PanosException"
    \* 'error' is str(e), the exception's message text, which is not modelled
    THEN Returned([connected |-> FALSE, error |-> "str(e)", error_code |-> response.code])
    ELSE IF response.exc # "none" THEN response
    ELSE IF response.val.success
    THEN connected_record(PyGet(response.val.data, "system", EmptyDict))
    ELSE Returned([connected |-> FALSE, error |-> response.val.message])

WithResult(r, result) == [result |-> result, api_key |-> r.api_key, sent |-> r.sent]

Connectivity(r) == WithResult(r, ConnectivityRecord(r.result))

test_connectivity(self, net1, net2) == Connectivity(make_request(self, net1, net2))


-----------------------------------------------------------------------------
(* Specification SpecClient: one PanosApiClient instance used sequentially *)

\* operations issued on one client instance
MaxOps == 3

S_admin  == <<"a", "d", "m", "i", "n">>
S_secret == <<"s", "e", "c", "r", "e", "t">>
S_PK     == <<"P", "K">>
S_K1     == <<"K", "1">>
S_K2     == <<"K", "2">>

StatusAttr(chars) == [a \in {"status"} |-> chars]
Response(status, kids) == Elem("response", StatusAttr(status), PyNone, kids)

\* answers of the manager to a key-exchange call
KeygenDocs ==
    { Response(S_success, <<Node("result", <<Leaf("key", S_K1)>>)>>),
      Response(S_success, <<Node("result", <<Leaf("key", S_K2)>>)>>),
      Response(<<"e", "r", "r", "o", "r">>, <<Node("result", <<Leaf("msg", <<"d", "e", "n", "i", "e", "d">>)>>)>>),
      Elem("response", NoAttr, PyNone, <<Node("result", <<Leaf("key", S_K1)>>)>>),
      Response(S_success, <<>>),
      Response(S_success, <<Empty("result")>>),
      Response(S_success, <<Leaf("result", <<"o", "k">>)>>),
      Response(S_success, <<Node("result", <<Empty("key")>>)>>),
      Response(S_success, <<Node("result", <<Leaf("key", <<" ">>)>>)>>),
      Response(S_success, <<Node("result", <<Leaf("other", <<"x">>)>>)>>) }

SystemInfoElem ==
    Node("system", <<Leaf("hostname", <<"f", "w", "1">>), Leaf("model", <<"P", "A">>),
                     Leaf("serial", <<"0", "0", "1">>), Leaf("sw-version", <<"1", "0", ".", "1", ".", "5">>),
                     Leaf("uptime", <<"1", "d">>)>>)

\* answers of the manager to a command call
CommandDocs ==
    { Response(S_success, <<Node("result", <<SystemInfoElem>>)>>),
      Response(<<"e", "r", "r", "o", "r">>, <<Node("msg", <<Leaf("line", <<"b", "a", "d">>)>>)>>),
      Response(S_success, <<>>),
      Response(S_success, <<Empty("result")>>),
      Response(S_success, <<Leaf("result", <<"o", "k">>)>>),
      Response(S_success, <<Node("result", <<Empty("system")>>)>>),
      Response(S_success, <<Node("result", <<Leaf("system", <<"o", "k">>)>>)>>) }

TransportFailures ==
    { NetURLError, NetHTTPError(403, "Forbidden"), NetHTTPError(500, "Server Error"),
      NetBody(BadBody) }

KeygenNet  == TransportFailures \cup { NetBody(XmlBody(d)) : d \in KeygenDocs }
CommandNet == TransportFailures \cup { NetBody(XmlBody(d)) : d \in CommandDocs }

NoWire   == [keygen |-> 0, command |-> 0]
NoLastOp == [op |-> "none"]

\* before PanosApiClient(...) is called
ClientIdle ==
    /\ constructed = FALSE
    /\ ctor_api_key = PyNone
    /\ username = PyNone
    /\ password = PyNone
    /\ api_key = PyNone
    /\ wire = NoWire
    /\ lastOp = NoLastOp
    /\ nOps = 0

CredentialArgs(chars) == { PyNone, PyStr(<<>>), PyStr(chars) }

\* __init__: stores its arguments; _create_ssl_context opens no connection
Init_(u, p, k) ==
    /\ ~constructed
    /\ constructed' = TRUE
    /\ ctor_api_key' = k
    /\ username' = u
    /\ password' = p
    /\ api_key' = k
    /\ UNCHANGED <<wire, lastOp, nOps>>
    /\ UNCHANGED <<verVars, jobVars, docVars, concVars>>

\* PanosApiClient(host, username=u, password=p, api_key=k)
Construct ==
    \E u \in CredentialArgs(S_admin), p \in {PyNone, PyStr(S_secret)},
       k \in CredentialArgs(S_PK) : Init_(u, p, k)

\* the HTTP calls counted by kind
Count(sent, type) == Len(SelectSeq(sent, LAMBDA q : q.type = type))

\* the bookkeeping common to every operation on the client
Record(op, r, net1, net2) ==
    /\ api_key' = r.api_key
    /\ wire' = [keygen  |-> wire.keygen + Count(r.sent, "keygen"),
                command |-> wire.command + Count(r.sent, "command")]
    /\ lastOp' = [op      |-> op,
                  result  |-> r.result,
                  sent    |-> r.sent,
                  keyWas  |-> api_key,
                  net1    |-> IF Count(r.sent, "keygen") > 0 THEN net1 ELSE NetUnused,
                  net2    |-> IF Count(r.sent, "command") > 0 THEN net2 ELSE NetUnused]
    /\ nOps' = nOps + 1
    /\ UNCHANGED <<constructed, ctor_api_key, username, password>>
    /\ UNCHANGED <<verVars, jobVars, docVars, concVars>>

\* op_command / export_config / ...: one call of _make_request
Request ==
    /\ constructed /\ nOps < MaxOps
    /\ \E net1 \in KeygenNet, net2 \in CommandNet :
          Record("request", make_request(Self, net1, net2), net1, net2)

\* test_connectivity
TestConnectivity ==
    /\ constructed /\ nOps < MaxOps
    /\ \E net1 \in KeygenNet, net2 \in CommandNet :
          Record("test_connectivity", test_connectivity(Self, net1, net2), net1, net2)


-----------------------------------------------------------------------------
(* wait_for_job *)

S_FIN     == <<"F", "I", "N">>
S_OK      == <<"O", "K">>
S_UNKNOWN == <<"U", "N", "K", "N", "O", "W", "N">>

\* mutant: success is taken from the job's status instead of its result
finish_or_continue_SuccessFromStatus(status, job_status, job_result, elapsed_) ==
    IF job_status.exc # "none" THEN job_status
    ELSE IF job_status.val = PyStr(S_FIN)
    THEN Returned([success |-> (job_status.val = PyStr(S_FIN)),
                   result  |-> job_result.val,
                   details |-> status,
                   elapsed |-> elapsed_])
    ELSE [exc |-> "continue"]

\* lines 299-307 of wait_for_job; "continue" stands for falling through to
\* time.sleep
finish_or_continue(status, job_status, job_result, elapsed_) ==
    IF job_status.exc # "none" THEN job_status
    ELSE IF job_status.val = PyStr(S_FIN)
    THEN Returned([success |-> (job_result.val = PyStr(S_OK)),
                   result  |-> job_result.val,
                   details |-> status,
                   elapsed |-> elapsed_])
    ELSE [exc |-> "continue"]

\* lines 292-294: the lookups in the job record
read_status(status, elapsed_) ==
    IF status.exc # "none" THEN status
    ELSE finish_or_continue(status.val,
                            PyGet(status.val, "status", PyStr(S_UNKNOWN)),
                            PyGet(status.val, "result", PyStr(S_UNKNOWN)),
                            elapsed_)

\* lines 291-305 of wait_for_job: what one iteration does with the response
\* it fetched
inspect_job(response, elapsed_) ==
    read_status(PyGet(response.data, "job", EmptyDict), elapsed_)

\* lines 286-305: a failure of get_job_status propagates
after_fetch(r, elapsed_) ==
    IF r.result.exc # "none" THEN r.result ELSE inspect_job(r.result.val, elapsed_)

\* mutant: the deadline itself counts as timed out
timed_out_AtDeadline(elapsed_, timeout_) == elapsed_ >= timeout_

\* elapsed > timeout
timed_out(elapsed_, timeout_) == elapsed_ > timeout_

(* Specification SpecJob: one call of wait_for_job against a client that     *)
(* holds a key, with a clock that advances during fetches and sleeps         *)

\* the largest timeout, the largest poll interval and the longest fetch, in
\* clock ticks
MaxTimeout   == 3
MaxPoll      == 2
MaxFetchTime == 2

JobDoc(kids) == Response(S_success, <<Node("result", <<Node("job", kids)>>)>>)

\* what a status fetch can meet, each with the status and result the
\* manager reports in it ("-" when it reports none)
Fetch(net, st, res) ==
    [net |-> net, status |-> st, result |-> res, answered |-> (net.k = "body" /\ net.body.wellformed)]

JobNet ==
    { Fetch(NetBody(XmlBody(JobDoc(<<Leaf("status", <<"P", "E", "N", "D">>), Leaf("result", <<"P", "E", "N", "D">>),
                                     Leaf("progress", <<"1", "0">>)>>))), "PEND", "PEND"),
      Fetch(NetBody(XmlBody(JobDoc(<<Leaf("status", S_FIN), Leaf("result", S_OK),
                                     Leaf("progress", <<"1", "0", "0">>)>>))), "FIN", "OK"),
      Fetch(NetBody(XmlBody(JobDoc(<<Leaf("status", S_FIN), Leaf("result", <<"F", "A", "I", "L">>)>>))),
            "FIN", "FAIL"),
      Fetch(NetBody(XmlBody(JobDoc(<<Leaf("status", S_FIN)>>))), "FIN", "-"),
      Fetch(NetBody(XmlBody(JobDoc(<<Leaf("status", <<"f", "i", "n">>), Leaf("result", S_OK)>>))),
            "fin", "OK"),
      Fetch(NetBody(XmlBody(Response(<<"e", "r", "r", "o", "r">>, <<Node("msg", <<Leaf("line", <<"b", "a", "d">>)>>)>>))),
            "-", "-"),
      Fetch(NetBody(XmlBody(Response(S_success,
                <<Node("result", <<Leaf("other", <<"x">>)>>)>>))), "-", "-"),
      Fetch(NetBody(XmlBody(Response(S_success, <<Empty("result")>>))), "-", "-"),
      Fetch(NetBody(XmlBody(JobDoc(<<>>))), "-", "-"),
      Fetch(NetURLError, "-", "-"),
      Fetch(NetBody(BadBody), "-", "-") }

NoJobEnd == [exc |-> "running"]

JobIdle ==
    /\ jobPc = "idle"
    /\ start_time = 0
    /\ now = 0
    /\ elapsed = 0
    /\ timeout = 0
    /\ poll_interval = 0
    /\ fetches = <<>>
    /\ jobEnd = NoJobEnd

\* a client constructed with a key: get_job_status never exchanges keys
ClientWithKey ==
    /\ constructed = TRUE
    /\ ctor_api_key = PyStr(S_PK)
    /\ username = PyNone
    /\ password = PyNone
    /\ api_key = PyStr(S_PK)
    /\ wire = NoWire
    /\ lastOp = NoLastOp
    /\ nOps = 0

JobInit ==
    /\ VerIdle
    /\ ClientWithKey
    /\ DocIdle
    /\ ConcIdle
    /\ jobPc = "call"
    /\ start_time = 0
    /\ now \in 0..1
    /\ elapsed = 0
    /\ timeout \in 0..MaxTimeout
    /\ poll_interval \in 1..MaxPoll
    /\ fetches = <<>>
    /\ jobEnd = NoJobEnd

\* start_time = time.time()
JobCall ==
    /\ jobPc = "call"
    /\ start_time' = now
    /\ jobPc' = "top"
    /\ UNCHANGED <<now, elapsed, timeout, poll_interval, fetches, jobEnd>>
    /\ UNCHANGED <<verVars, clientVars, docVars, concVars>>

\* top of the loop: elapsed = time.time() - start_time; the timeout check
JobTop ==
    /\ jobPc = "top"
    /\ elapsed' = now - start_time
    /\ IF timed_out(elapsed', timeout)
       THEN /\ jobPc' = "done"
            /\ jobEnd' = RaisedPanosWith("JOB_TIMEOUT",
                            [job_id |-> "job", elapsed |-> elapsed'])
       ELSE /\ jobPc' = "fetch"
            /\ UNCHANGED jobEnd
    /\ UNCHANGED <<start_time, now, timeout, poll_interval, fetches>>
    /\ UNCHANGED <<verVars, clientVars, docVars, concVars>>

\* api_client.get_job_status(job_id), taking d ticks, and the inspection of
\* its response
JobFetch ==
    /\ jobPc = "fetch"
    /\ \E f \in JobNet, d \in 0..MaxFetchTime :
         \E r \in {make_request(Self, NetUnused, f.net)} :
         \E step \in {after_fetch(r, elapsed)} :
             /\ now' = now + d
             /\ fetches' = Append(fetches, [status |-> f.status, result |-> f.result,
                                             answered |-> f.answered])
             /\ api_key' = r.api_key
             /\ wire' = [keygen  |-> wire.keygen + Count(r.sent, "keygen"),
                         command |-> wire.command + Count(r.sent, "command")]
             /\ IF step.exc = "continue"
                THEN /\ jobPc' = "sleep"
                     /\ UNCHANGED jobEnd
                ELSE /\ jobPc' = "done"
                     /\ jobEnd' = step
    /\ UNCHANGED <<start_time, elapsed, timeout, poll_interval>>
    /\ UNCHANGED <<verVars, docVars, constructed, ctor_api_key, username, password, lastOp, nOps, concVars>>

\* time.sleep(poll_interval)
JobSleep ==
    /\ jobPc = "sleep"
    /\ now' = now + poll_interval
    /\ jobPc' = "top"
    /\ UNCHANGED <<start_time, elapsed, timeout, poll_interval, fetches, jobEnd>>
    /\ UNCHANGED <<verVars, clientVars, docVars, concVars>>

JobNext == JobCall \/ JobTop \/ JobFetch \/ JobSleep

SpecJob == JobInit /\ [][JobNext]_vars

-----------------------------------------------------------------------------
(* extract_ha_info *)

S_standalone == <<"s", "t", "a", "n", "d", "a", "l", "o", "n", "e">>
S_no         == <<"n", "o">>
S_0          == <<"0">>

\* lines 378-389: the returned dict; local_info.get and peer_info.get raise
\* on a value that is not a dict
ha_record(data, group, local_info, peer_info) ==
    IF local_info.t # "map" \/ peer_info.t # "map" THEN RaisedAttrError
    ELSE Returned([enabled              |-> Truthy(group),
                   mode                 |-> PyGet(local_info, "mode", PyStr(S_standalone)).val,
                   state                |-> PyGet(local_info, "state", PyStr(S_unknown)).val,
                   peer_state           |-> PyGet(peer_info, "state", PyStr(S_unknown)).val,
                   running_sync         |-> PyGet(local_info, "running-sync", PyStr(S_unknown)).val,
                   running_sync_enabled |-> PyGet(local_info, "running-sync-enabled", PyStr(S_no)).val,
                   preemptive           |-> PyGet(local_info, "preemptive", PyStr(S_no)).val,
                   priority             |-> PyGet(local_info, "priority", PyStr(S_0)).val,
                   peer_address         |-> PyGet(peer_info, "mgmt-ip", PyStr(<<>>)).val,
                   raw                  |-> data])

\* lines 375-376: group.get('local-info', {}) and group.get('peer-info', {})
ha_infos(data, group, local_info, peer_info) ==
    IF local_info.exc # "none" THEN local_info
    ELSE IF peer_info.exc # "none" THEN peer_info
    ELSE ha_record(data, group, local_info.val, peer_info.val)

\* line 374: group = data.get('group', {})
ha_group(data, group) ==
    IF group.exc # "none" THEN group
    ELSE ha_infos(data, group.val, PyGet(group.val, "local-info", EmptyDict),
                  PyGet(group.val, "peer-info", EmptyDict))

\* ha_response always has the key 'data', so line 371 reads its value
extract_ha_info(ha_response) ==
    ha_group(ha_response.data, PyGet(ha_response.data, "group", EmptyDict))

-----------------------------------------------------------------------------
(* get_device_by_name, get_device_by_serial *)

RaisedTypeError == [exc |-> "TypeError"]

\* str.lower() on the letters of the Latin alphabet
LowerChar(c) ==
    CASE c = "A" -> "a"
      [] c = "B" -> "b"
      [] c = "C" -> "c"
      [] c = "D" -> "d"
      [] c = "E" -> "e"
      [] c = "F" -> "f"
      [] c = "G" -> "g"
      [] c = "H" -> "h"
      [] c = "I" -> "i"
      [] c = "J" -> "j"
      [] c = "K" -> "k"
      [] c = "L" -> "l"
      [] c = "M" -> "m"
      [] c = "N" -> "n"
      [] c = "O" -> "o"
      [] c = "P" -> "p"
      [] c = "Q" -> "q"
      [] c = "R" -> "r"
      [] c = "S" -> "s"
      [] c = "T" -> "t"
      [] c = "U" -> "u"
      [] c = "V" -> "v"
      [] c = "W" -> "w"
      [] c = "X" -> "x"
      [] c = "Y" -> "y"
      [] c = "Z" -> "z"
      [] OTHER -> c

Lower(chars) == [i \in 1..Len(chars) |-> LowerChar(chars[i])]

\* device.get('@attributes', {}).get('name', device.get('serial', '')), on a
\* device that is a dict; the value under '@attributes' is always a dict
serial_of(device) ==
    PyGet(PyGet(device, "@attributes", EmptyDict).val, "name",
          PyGet(device, "serial", PyStr(<<>>)).val)

\* device.get('ha', {}).get('state', 'standalone'), given device.get('ha', {})
ha_state_of(ha) == PyGet(ha, "state", PyStr(S_standalone))

\* device.get('ha', {}).get('peer', {}).get('serial', '')
peer_serial_of(peer) ==
    IF peer.exc # "none" THEN peer ELSE PyGet(peer.val, "serial", PyStr(<<>>))

\* the returned device info dict
device_info(device, hostname, serial, ha_state, ha_peer_serial) ==
    IF ha_state.exc # "none" THEN ha_state
    ELSE IF ha_peer_serial.exc # "none" THEN ha_peer_serial
    ELSE Returned([hostname       |-> hostname,
                   serial         |-> serial,
                   ip_address     |-> PyGet(device, "ip-address", PyStr(<<>>)).val,
                   model          |-> PyGet(device, "model", PyStr(<<>>)).val,
                   sw_version     |-> PyGet(device, "sw-version", PyStr(<<>>)).val,
                   connected      |-> PyGet(device, "connected", PyStr(S_no)).val,
                   ha_state       |-> ha_state.val,
                   ha_peer_serial |-> ha_peer_serial.val,
                   raw            |-> device])

\* lines 335-345 and 379-389, given device.get('ha', {})
device_found(device, hostname, serial, ha) ==
    device_info(device, hostname, serial, ha_state_of(ha),
                peer_serial_of(PyGet(ha, "peer", EmptyDict)))

RECURSIVE name_loop(_, _)
RECURSIVE serial_loop(_, _)

\* lines 333-345: one device of the loop, given device.get('hostname', '');
\* only a str has lower()
name_match(device, hostname, rest, device_name) ==
    IF hostname.exc # "none" THEN hostname
    ELSE IF hostname.val.t # "str" THEN RaisedAttrError
    ELSE IF Lower(hostname.val.v) = Lower(device_name)
    THEN device_found(device, hostname.val, serial_of(device).val,
                      PyGet(device, "ha", EmptyDict).val)
    ELSE name_loop(rest, device_name)

\* lines 332-351: for device in devices ... raise DEVICE_NOT_FOUND
name_loop(devices, device_name) ==
    IF Len(devices) = 0
    THEN RaisedPanosWith("DEVICE_NOT_FOUND", [device_name |-> device_name])
    ELSE name_match(Head(devices), PyGet(Head(devices), "hostname", PyStr(<<>>)),
                    Tail(devices), device_name)

\* lines 377-389: one device of the loop
serial_match(device, rest, serial) ==
    IF device.t # "map" THEN RaisedAttrError
    ELSE IF serial_of(device).val = PyStr(serial)
    THEN device_found(device, PyGet(device, "hostname", PyStr(<<>>)).val,
                      serial_of(device).val, PyGet(device, "ha", EmptyDict).val)
    ELSE serial_loop(rest, serial)

\* lines 376-395
serial_loop(devices, serial) ==
    IF Len(devices) = 0
    THEN RaisedPanosWith("DEVICE_NOT_FOUND", [serial |-> serial])
    ELSE serial_match(Head(devices), Tail(devices), serial)

\* "if isinstance(devices, dict): devices = [devices]" and what the for
\* statement iterates over: None is not iterable, a str gives its characters
iterate(devices) ==
    CASE devices.t = "map"  -> Returned(<<devices>>)
      [] devices.t = "list" -> Returned(devices.l)
      [] devices.t = "str"  -> Returned([i \in 1..Len(devices.v) |-> PyStr(<<devices.v[i]>>)])
      [] devices.t = "null" -> RaisedTypeError

\* response.get('data', {}).get('devices', {}).get('entry', []), given
\* response.get('data', {}).get('devices', {})
entries_of(devices) ==
    IF devices.exc # "none" THEN devices ELSE PyGet(devices.val, "entry", EmptyList)

\* lines 326-330 and 371-374
devices_of(response) == entries_of(PyGet(response.data, "devices", EmptyDict))

by_name_loop(devices, device_name) ==
    IF devices.exc # "none" THEN devices ELSE name_loop(devices.val, device_name)

by_name_entries(entry, device_name) ==
    IF entry.exc # "none" THEN entry ELSE by_name_loop(iterate(entry.val), device_name)

\* get_device_by_name, given what get_panorama_managed_devices did
by_name(response, device_name) ==
    IF response.exc # "none" THEN response
    ELSE IF ~response.val.success
    THEN RaisedPanosWith("DEVICE_LOOKUP_FAILED", [response |-> response.val])
    ELSE by_name_entries(devices_of(response.val), device_name)

by_serial_loop(devices, serial) ==
    IF devices.exc # "none" THEN devices ELSE serial_loop(devices.val, serial)

by_serial_entries(entry, serial) ==
    IF entry.exc # "none" THEN entry ELSE by_serial_loop(iterate(entry.val), serial)

\* get_device_by_serial, given what get_panorama_managed_devices did
by_serial(response, serial) ==
    IF response.exc # "none" THEN response
    ELSE IF ~response.val.success THEN RaisedPanos("DEVICE_LOOKUP_FAILED")
    ELSE by_serial_entries(devices_of(response.val), serial)

DeviceByName(r, device_name) == WithResult(r, by_name(r.result, device_name))

DeviceBySerial(r, serial) == WithResult(r, by_serial(r.result, serial))

get_device_by_name(self, net1, net2, device_name) ==
    DeviceByName(make_request(self, net1, net2), device_name)

get_device_by_serial(self, net1, net2, serial) ==
    DeviceBySerial(make_request(self, net1, net2), serial)

(* Specification SpecData: one response body handed to the normaliser, to  *)
(* extract_ha_info and, through a client that holds a key, to the device     *)
(* lookups                                                                   *)

S_error == <<"e", "r", "r", "o", "r">>
S_fw1   == <<"f", "w", "1">>
S_FW1   == <<"F", "W", "1">>
S_S1    == <<"S", "1">>
S_S2    == <<"S", "2">>

XAttr == [a \in {"x"} |-> <<"1">>]
NameAttr(chars) == [a \in {"name"} |-> chars]

\* <response status="success"><result>kids</result></response>
ResultDoc(kids) == Response(S_success, <<Node("result", kids)>>)
\* ... <result><group>kids</group></result> ...
HaDoc(kids) == ResultDoc(<<Node("group", kids)>>)
\* ... <result><devices>entries</devices></result> ...
DevicesDoc(entries) == ResultDoc(<<Node("devices", entries)>>)
\* <entry name="serial">kids</entry>
Entry(serial, kids) == Elem("entry", NameAttr(serial), PyNone, kids)

NormalizerDocs ==
    { ResultDoc(<<Leaf("a", <<"1">>), Leaf("a", <<"2">>)>>),
      ResultDoc(<<Empty("a"), Leaf("a", <<"1">>), Empty("a")>>),
      ResultDoc(<<Leaf("a", <<" ", "1", " ">>)>>),
      ResultDoc(<<Leaf("a", <<" ">>)>>),
      ResultDoc(<<Empty("a")>>),
      Response(S_success, <<>>),
      Response(S_success, <<Empty("result")>>),
      Response(S_success, <<Leaf("result", <<"o", "k">>)>>),
      ResultDoc(<<Elem("a", XAttr, PyNone, <<>>), Empty("a")>>),
      ResultDoc(<<Leaf("a", <<"1">>), Empty("b"), Leaf("a", <<"2">>)>>),
      ResultDoc(<<Node("a", <<Leaf("b", <<"1">>), Leaf("b", <<"2">>)>>), Node("a", <<Leaf("b", <<"3">>)>>)>>),
      ResultDoc(<<Elem("a", XAttr, PyStr(<<"t">>), <<>>)>>),
      Response(S_error, <<Node("msg", <<Leaf("line", <<"b", "a", "d">>)>>)>>),
      \* indented: the text of an element with children is whitespace
      Response(S_success, <<Elem("result", NoAttr, PyStr(<<"\n", " ">>), <<Leaf("a", <<"1">>)>>)>>) }

HaDocs ==
    { ResultDoc(<<Empty("group")>>),
      ResultDoc(<<Leaf("group", <<"s">>)>>),
      ResultDoc(<<Node("group", <<Empty("a")>>), Node("group", <<Empty("b")>>)>>),
      HaDoc(<<Empty("local-info")>>),
      HaDoc(<<Leaf("local-info", <<"x">>)>>),
      HaDoc(<<Node("local-info", <<Leaf("mode", <<"a", "-", "p">>)>>), Empty("local-info")>>),
      HaDoc(<<Empty("peer-info"), Node("local-info", <<Leaf("state", <<"a", "c", "t", "i", "v", "e">>)>>)>>),
      HaDoc(<<Node("local-info", <<Leaf("state", <<"a", "c", "t", "i", "v", "e">>)>>)>>),
      HaDoc(<<Node("peer-info", <<Leaf("state", <<"p", "a", "s", "s", "i", "v", "e">>)>>)>>),
      HaDoc(<<Node("local-info", <<Leaf("state", <<"a", "c", "t", "i", "v", "e">>), Leaf("mode", <<"a", "-", "p">>)>>),
              Node("peer-info", <<Leaf("state", <<"p", "a", "s", "s", "i", "v", "e">>), Leaf("mgmt-ip", <<"1", ".", "2">>)>>)>>),
      HaDoc(<<Node("local-info", <<Leaf("state", <<"a", "c", "t", "i", "v", "e">>), Empty("mode")>>),
              Node("peer-info", <<Leaf("state", <<"p", "a", "s", "s", "i", "v", "e">>)>>)>>) }

DeviceDocs ==
    { ResultDoc(<<Empty("devices")>>),
      DevicesDoc(<<Empty("entry")>>),
      DevicesDoc(<<Entry(S_S1, <<Leaf("hostname", S_FW1)>>)>>),
      DevicesDoc(<<Entry(S_S1, <<Empty("hostname")>>)>>),
      DevicesDoc(<<Entry(S_S1, <<>>)>>),
      DevicesDoc(<<Entry(S_S1, <<Leaf("hostname", S_fw1)>>), Entry(S_S2, <<Leaf("hostname", S_FW1)>>)>>),
      DevicesDoc(<<Entry(S_S1, <<Empty("hostname")>>), Entry(S_S2, <<Leaf("hostname", S_FW1)>>)>>),
      DevicesDoc(<<Entry(S_S2, <<Leaf("hostname", S_FW1)>>), Entry(S_S1, <<Empty("hostname")>>)>>),
      DevicesDoc(<<Node("entry", <<Leaf("serial", S_S1), Leaf("hostname", S_fw1)>>)>>),
      DevicesDoc(<<Node("entry", <<Leaf("hostname", S_fw1)>>), Empty("entry")>>),
      DevicesDoc(<<Leaf("entry", <<"t", "x", "t">>)>>),
      DevicesDoc(<<Entry(S_S1, <<Leaf("hostname", S_fw1), Empty("ha")>>)>>),
      DevicesDoc(<<Entry(S_S1, <<Leaf("hostname", S_fw1), Leaf("model", <<"P", "A">>),
                                 Node("ha", <<Leaf("state", <<"a", "c", "t", "i", "v", "e">>), Node("peer", <<Leaf("serial", S_S2)>>)>>)>>)>>),
      DevicesDoc(<<Entry(S_S1, <<Leaf("hostname", S_fw1), Leaf("model", <<"P", "A">>)>>), Entry(S_S1, <<Leaf("hostname", S_FW1)>>)>>),
      Response(S_error, <<Node("result", <<Node("devices", <<Entry(S_S1, <<Leaf("hostname", S_fw1)>>)>>)>>)>>) }

DataBodies ==
    {BadBody} \cup { XmlBody(d) : d \in NormalizerDocs \cup HaDocs \cup DeviceDocs }

DataInit ==
    /\ VerIdle
    /\ ClientWithKey
    /\ JobIdle
    /\ ConcIdle
    /\ doc \in DataBodies
    /\ docOut = NoDocOut

\* parse_xml_response(body)
Normalize ==
    /\ docOut' = [op |-> "parse_xml_response", out |-> parse_xml_response(doc)]
    /\ UNCHANGED doc
    /\ UNCHANGED <<verVars, clientVars, jobVars, concVars>>

\* extract_ha_info(response), for a response the normaliser returned
ExtractHa ==
    /\ \E parsed \in {parse_xml_response(doc)} :
          /\ parsed.exc = "none"
          /\ docOut' = [op       |-> "extract_ha_info",
                        response |-> parsed.val,
                        out      |-> extract_ha_info(parsed.val)]
    /\ UNCHANGED doc
    /\ UNCHANGED <<verVars, clientVars, jobVars, concVars>>

\* the bookkeeping of a device lookup: as Record, with the argument kept
RecordLookup(op, arg, r, net2) ==
    /\ api_key' = r.api_key
    /\ wire' = [keygen  |-> wire.keygen + Count(r.sent, "keygen"),
                command |-> wire.command + Count(r.sent, "command")]
    /\ lastOp' = [op      |-> op,
                  arg     |-> arg,
                  result  |-> r.result,
                  sent    |-> r.sent,
                  keyWas  |-> api_key,
                  net1    |-> NetUnused,
                  net2    |-> IF Count(r.sent, "command") > 0 THEN net2 ELSE NetUnused]
    /\ nOps' = nOps + 1
    /\ UNCHANGED <<constructed, ctor_api_key, username, password>>
    /\ UNCHANGED <<verVars, jobVars, docVars, concVars>>

LookupNames   == { S_fw1, S_FW1, <<"x">> }
LookupSerials == { S_S1, S_S2, <<"x">> }

\* get_device_by_name(device_name), the list fetch answered with the body
GetDeviceByName ==
    /\ constructed /\ nOps < MaxOps
    /\ \E device_name \in LookupNames :
          RecordLookup("get_device_by_name", device_name,
                       get_device_by_name(Self, NetUnused, NetBody(doc), device_name),
                       NetBody(doc))

\* get_device_by_serial(serial), the list fetch answered with the body
GetDeviceBySerial ==
    /\ constructed /\ nOps < MaxOps
    /\ \E serial \in LookupSerials :
          RecordLookup("get_device_by_serial", serial,
                       get_device_by_serial(Self, NetUnused, NetBody(doc), serial),
                       NetBody(doc))

DataNext == Normalize \/ ExtractHa \/ GetDeviceByName \/ GetDeviceBySerial

SpecData == DataInit /\ [][DataNext]_vars

-----------------------------------------------------------------------------
(* Specification SpecConc: two callers in _make_request on one instance.
   Nothing in PanosApiClient holds a lock, so a caller can be preempted
   between any two of its steps; a step ends where the caller reads
   self.api_key or waits in urlopen *)

\* calls of _make_request each caller issues
MaxCalls == 2

\* mutant: the held key is not looked at
key_check_IgnoresKey(self) ==
    IF ~Truthy(self.username) \/ ~Truthy(self.password) THEN "missing"
    ELSE "exchange"

\* lines 77-84 of _get_api_key: what a caller decides on the value of
\* self.api_key it reads, before any HTTP call
key_check(self) ==
    IF Truthy(self.api_key) THEN "held"
    ELSE IF ~Truthy(self.username) \/ ~Truthy(self.password) THEN "missing"
    ELSE "exchange"

\* how a call of _make_request ended, as its caller sees it
Outcome(r) == IF r.exc = "none" THEN "returned"
              ELSE IF r.exc = "PanosException" THEN r.code ELSE r.exc

CallEnded(c, outcome) ==
    [pc |-> "idle", key |-> PyNone, calls |-> callers[c].calls + 1, last |-> outcome]

\* a shared instance, built with or without a key
ConcInit ==
    /\ VerIdle /\ JobIdle /\ DocIdle
    /\ constructed = TRUE
    /\ username \in {PyNone, PyStr(S_admin)}
    /\ password = PyStr(S_secret)
    /\ ctor_api_key \in {PyNone, PyStr(S_PK)}
    /\ api_key = ctor_api_key
    /\ wire = NoWire
    /\ lastOp = NoLastOp
    /\ nOps = 0
    /\ ConcIdle

\* line 143: a caller enters _make_request
ConcCall ==
    \E c \in Callers :
        /\ callers[c].pc = "idle" /\ callers[c].calls < MaxCalls
        /\ callers' = [callers EXCEPT ![c].pc = "check"]
        /\ overlapped' = (overlapped \/ \E d \in Callers \ {c} : callers[d].pc # "idle")
        /\ UNCHANGED <<exchanged, clientVars>>
        /\ UNCHANGED <<verVars, jobVars, docVars>>

\* lines 77-84: the caller reads self.api_key
ConcCheck ==
    \E c \in Callers :
        /\ callers[c].pc = "check"
        /\ callers' = [callers EXCEPT ![c] =
                          IF key_check(Self) = "held"
                          THEN [@ EXCEPT !.pc = "command", !.key = KeyHeld(Self).result.val]
                          ELSE IF key_check(Self) = "missing"
                          THEN CallEnded(c, "AUTH_MISSING")
                          ELSE [@ EXCEPT !.pc = "keygen"]]
        /\ UNCHANGED <<overlapped, exchanged, clientVars>>
        /\ UNCHANGED <<verVars, jobVars, docVars>>

\* what the key-exchange call of caller c leaves behind
ConcExchanged(c, r) ==
    /\ api_key' = r.api_key
    /\ wire' = [wire EXCEPT !.keygen = @ + 1]
    /\ exchanged' = IF r.result.exc = "none" THEN exchanged + 1 ELSE exchanged
    /\ callers' = [callers EXCEPT ![c] =
                      IF r.result.exc = "none"
                      THEN [@ EXCEPT !.pc = "command", !.key = r.result.val]
                      ELSE CallEnded(c, Outcome(r.result))]
    /\ UNCHANGED <<overlapped, constructed, ctor_api_key, username, password, lastOp, nOps>>
    /\ UNCHANGED <<verVars, jobVars, docVars>>

\* lines 93-129: the key-exchange call is answered; on success line 120
\* writes self.api_key, whatever it holds by then
ConcKeygen ==
    \E c \in Callers, net \in KeygenNet :
        /\ callers[c].pc = "keygen"
        /\ \E r \in {exchange_key(Self, <<[type |-> "keygen", user |-> username]>>, net)} :
              ConcExchanged(c, r)

\* lines 144-181: the command call, with the key the caller got at line 143
ConcCommand ==
    \E c \in Callers, net2 \in CommandNet :
        /\ callers[c].pc = "command"
        /\ \E r \in {send_command([result |-> Returned(callers[c].key),
                                   api_key |-> api_key, sent |-> <<>>], net2)} :
              /\ callers' = [callers EXCEPT ![c] = CallEnded(c, Outcome(r.result))]
              /\ wire' = [wire EXCEPT !.command = @ + 1]
        /\ UNCHANGED <<overlapped, exchanged, constructed, ctor_api_key, username,
                       password, api_key, lastOp, nOps>>
        /\ UNCHANGED <<verVars, jobVars, docVars>>

ConcNext == ConcCall \/ ConcCheck \/ ConcKeygen \/ ConcCommand

SpecConc == ConcInit /\ [][ConcNext]_vars

-----------------------------------------------------------------------------
(* The other specifications *)

VerNext == ApplyFilterCompare \/ ApplyStrictCompare \/ ApplyPredicates

VerSpecInit == VerInit /\ ClientIdle /\ JobIdle /\ DocIdle /\ ConcIdle

SpecVer == VerSpecInit /\ [][VerNext]_vars

PathNext == ApplyUpgradePath

PathSpecInit == PathInit /\ ClientIdle /\ JobIdle /\ DocIdle /\ ConcIdle

SpecPath == PathSpecInit /\ [][PathNext]_vars

ClientNext == Construct \/ Request \/ TestConnectivity

ClientSpecInit == VerIdle /\ ClientIdle /\ JobIdle /\ DocIdle /\ ConcIdle

SpecClient == ClientSpecInit /\ [][ClientNext]_vars


-----------------------------------------------------------------------------
(* Claims about the version functions (SpecVer) *)

Parseable(arg) == arg.fields # <<>>

Sign(x, y) == IF x < y THEN -1 ELSE IF x > y THEN 1 ELSE 0

\* the order of two (major, minor, patch, hotfix) tuples, first difference wins
LexCompare(x, y) ==
    IF x[1] # y[1] THEN Sign(x[1], y[1])
    ELSE IF x[2] # y[2] THEN Sign(x[2], y[2])
    ELSE IF x[3] # y[3] THEN Sign(x[3], y[3])
    ELSE Sign(x[4], y[4])

\* C8: for parseable a and b, compare(a,b) = -compare(b,a) and compare(a,a) = 0
\* (EQUAL), for the filter comparator and for the strict comparator
C8_CompareAntisymmetric ==
    (Parseable(va) /\ Parseable(vb)) =>
        /\ verOut.op = "panos_version_compare" =>
              /\ verOut.ab.t = "int" /\ verOut.ba.t = "int"
              /\ verOut.ab.v \in {-1, 0, 1}
              /\ verOut.ab.v = -verOut.ba.v
              /\ verOut.aa = PyInt(0)
        /\ verOut.op = "compare_versions" =>
              /\ verOut.ab.exc = "none" /\ verOut.ba.exc = "none"
              /\ verOut.ab.val \in {-1, 0, 1}
              /\ verOut.ab.val = -verOut.ba.val
              /\ verOut.aa = Returned(0)

\* the strict comparator has answered GREATER one way and LESS the other
C8_Witness ==
    /\ verOut.op = "compare_versions"
    /\ Parseable(va) /\ Parseable(vb)
    /\ verOut.ab = Returned(1) /\ verOut.ba = Returned(-1)

\* C9: compare(a,b) is null when a or b does not parse; otherwise it is the
\* lexicographic order of (major, minor, patch, hotfix), an absent hotfix
\* counting as 0, and two versions that differ only in candidate are EQUAL
C9_CompareLexicographicOrNull ==
    verOut.op = "panos_version_compare" =>
        /\ (~Parseable(va) \/ ~Parseable(vb)) => verOut.ab = PyNone
        /\ (Parseable(va) /\ Parseable(vb)) =>
              /\ verOut.ab = PyInt(LexCompare(va.fields, vb.fields))
              /\ (va.fields = vb.fields) => verOut.ab = PyInt(0)

\* two versions that differ only in their candidate number were compared
C9_Witness ==
    /\ verOut.op = "panos_version_compare"
    /\ Parseable(va) /\ Parseable(vb)
    /\ va.fields = vb.fields /\ va.cand # vb.cand
    /\ verOut.ab = PyInt(0)

\* C10: gte, lte, gt, lt, eq are false when an argument does not parse (also
\* on (x, x)); for parseable arguments each is its relation on the order of
\* the two versions, so exactly one of lt, eq, gt holds
C10_PredicatesFailClosed ==
    verOut.op = "predicates" =>
        /\ {verOut.gte, verOut.lte, verOut.gt, verOut.lt, verOut.eq,
            verOut.gte_aa, verOut.lte_aa, verOut.eq_aa} \subseteq BOOLEAN
        /\ (~Parseable(va) \/ ~Parseable(vb)) =>
              ~(verOut.gte \/ verOut.lte \/ verOut.gt \/ verOut.lt \/ verOut.eq)
        /\ ~Parseable(va) => ~(verOut.gte_aa \/ verOut.lte_aa \/ verOut.eq_aa)
        /\ (Parseable(va) /\ Parseable(vb)) =>
              /\ verOut.gte = (LexCompare(va.fields, vb.fields) >= 0)
              /\ verOut.lte = (LexCompare(va.fields, vb.fields) <= 0)
              /\ verOut.gt  = (LexCompare(va.fields, vb.fields) > 0)
              /\ verOut.lt  = (LexCompare(va.fields, vb.fields) < 0)
              /\ verOut.eq  = (LexCompare(va.fields, vb.fields) = 0)
              /\ Cardinality({p \in {"lt", "eq", "gt"} : verOut[p]}) = 1

\* eq(x, x) was asked for a non-empty text x that is not a version
C10_Witness ==
    /\ verOut.op = "predicates"
    /\ ~Parseable(va) /\ Truthy(va.text)
    /\ verOut.eq_aa = FALSE /\ verOut.gte_aa = FALSE /\ verOut.lte_aa = FALSE


-----------------------------------------------------------------------------
(* Claims about the client (SpecClient) *)

\* the key of the command call an operation issued, if it issued one
SentCommand(op) ==
    op.op # "none" /\ Len(op.sent) > 0 /\ op.sent[Len(op.sent)].type = "command"
CommandKey(op) == op.sent[Len(op.sent)].key

C1_Step ==
    (constructed /\ ~Truthy(ctor_api_key) /\ nOps' = nOps + 1) =>
        \* the request before this one carried a key, so the exchange had
        \* succeeded: this request exchanges no key and carries the same key
        /\ SentCommand(lastOp) =>
              /\ wire'.keygen = wire.keygen
              /\ lastOp'.net1 = NetUnused
              /\ lastOp'.sent = <<[type |-> "command", key |-> CommandKey(lastOp)]>>
              /\ api_key = CommandKey(lastOp)
              /\ api_key' = api_key
        \* the request that exchanges the key carries the key it was given
        /\ (lastOp'.net1 # NetUnused /\ SentCommand(lastOp')) =>
              /\ lastOp'.net1.body.root.children[1].children[1].text = CommandKey(lastOp')
              /\ api_key' = CommandKey(lastOp')

\* C1: on a client built without a key, once a key exchange has succeeded
\* every later request, failing or not, exchanges no key again and carries
\* that same key
C1_KeyCachedAfterExchange == [][C1_Step]_vars

\* one exchange, then two more requests on the cached key, the last failing
C1_Witness ==
    /\ constructed /\ ~Truthy(ctor_api_key)
    /\ nOps = 3 /\ wire.keygen = 1 /\ wire.command = 3
    /\ lastOp.result.exc = "PanosException"
    /\ api_key = PyStr(S_K2)

C2_Step ==
    \* the constructor issues no HTTP call
    /\ ~constructed => wire' = NoWire
    \* a key exchange is issued only by a request that finds no key held
    /\ wire'.keygen # wire.keygen =>
          /\ constructed /\ nOps' = nOps + 1
          /\ ~Truthy(api_key)
          /\ wire'.keygen = wire.keygen + 1
    \* and it is that request which issues it, before its command call
    /\ (constructed /\ nOps' = nOps + 1 /\ ~Truthy(api_key)
           /\ Truthy(username) /\ Truthy(password)) =>
          /\ wire'.keygen = wire.keygen + 1
          /\ lastOp'.sent[1].type = "keygen"
    \* a client built with a key never exchanges one
    /\ Truthy(ctor_api_key') => wire'.keygen = 0

\* C2: credential acquisition is lazy: none at construction, a key exchange
\* only in a request that needs a credential (finds none held), and never on
\* a client built with a key
C2_LazyKeyExchange == [][C2_Step]_vars

\* a client built with a key and with username and password has done all
\* its requests without one key exchange
C2_Witness ==
    /\ constructed /\ Truthy(ctor_api_key) /\ Truthy(username) /\ Truthy(password)
    /\ nOps = MaxOps /\ wire.keygen = 0 /\ wire.command = MaxOps

\* what a key-exchange answer says, read off the document
DocStatus(root) ==
    IF "status" \in DOMAIN root.attrib THEN root.attrib["status"] ELSE <<>>
NonBlank(text) == Truthy(text) /\ \E i \in 1..Len(text.v) : text.v[i] \notin SpaceChars
DocCarriesKey(root) ==
    \E i \in 1..Len(root.children) :
        /\ root.children[i].tag = "result"
        /\ \E j \in 1..Len(root.children[i].children) :
              /\ root.children[i].children[j].tag = "key"
              /\ NonBlank(root.children[i].children[j].text)

Answered(net) == net.k = "body" /\ net.body.wellformed

\* C3 (as claimed): credential resolution without a held key fails with
\* AUTH_MISSING, and before any HTTP call, when username or password is
\* absent; otherwise with KEYGEN_FAILED when the answer's status is not
\* "success", and with KEYGEN_NO_KEY when it is "success" but carries no key
C3_ResolveCredentialErrors ==
    (lastOp.op = "request" /\ ~Truthy(lastOp.keyWas)) =>
        /\ (~Truthy(username) \/ ~Truthy(password)) =>
              /\ lastOp.result = RaisedPanos("AUTH_MISSING")
              /\ lastOp.sent = <<>>
        /\ (Truthy(username) /\ Truthy(password) /\ Answered(lastOp.net1)) =>
              /\ DocStatus(lastOp.net1.body.root) # S_success =>
                    lastOp.result = RaisedPanos("KEYGEN_FAILED")
              /\ (DocStatus(lastOp.net1.body.root) = S_success
                    /\ ~DocCarriesKey(lastOp.net1.body.root)) =>
                    lastOp.result = RaisedPanos("KEYGEN_NO_KEY")

\* C4 (as claimed): in every request, also one that exchanges the key first,
\* a non-2xx status surfaces as HTTP_ERROR with the status code and reason
\* and a connection failure as CONNECTION_ERROR
C4_TransportErrorsDistinct ==
    lastOp.op = "request" =>
        /\ \A net \in {lastOp.net1, lastOp.net2} :
              net.k = "HTTPError" =>
                  lastOp.result = RaisedPanosWith("HTTP_ERROR",
                                      [code |-> net.code, reason |-> net.reason])
        /\ \A net \in {lastOp.net1, lastOp.net2} :
              net.k = "URLError" => lastOp.result = RaisedPanos("CONNECTION_ERROR")

\* C5 (as claimed): test_connectivity never raises; it returns a record, and
\* the record is {connected: false, error, error_code} when the HTTP call
\* failed, the body was malformed or the credential could not be resolved
C5_TestConnectivityNeverRaises ==
    lastOp.op = "test_connectivity" =>
        /\ lastOp.result.exc = "none"
        /\ lastOp.result.val.connected \in BOOLEAN
        /\ (\/ ~SentCommand(lastOp)
            \/ lastOp.net2.k \in {"URLError", "HTTPError"}
            \/ ~Answered(lastOp.net2)) =>
              /\ lastOp.result.val.connected = FALSE
              /\ DOMAIN lastOp.result.val = {"connected", "error", "error_code"}

\* the key-exchange call did not yield a key, read off what it met
KeygenFails(net) ==
    \/ net.k \in {"URLError", "HTTPError"}
    \/ ~Answered(net)
    \/ DocStatus(net.body.root) # S_success
    \/ ~DocCarriesKey(net.body.root)

\* the command call did not yield a parsed answer, read off what it met
CommandFails(net) == net.k \in {"URLError", "HTTPError"} \/ ~Answered(net)

\* C18: one request issues at most one key-exchange call and at most one
\* command call, the key exchange first; a failed key exchange or a failed
\* credential check raises with no command call, and a failed command call
\* raises with no HTTP call after it
C18_NoRetry ==
    lastOp.op = "request" =>
        /\ Count(lastOp.sent, "keygen") <= 1
        /\ Count(lastOp.sent, "command") <= 1
        /\ Len(lastOp.sent) = Count(lastOp.sent, "keygen") + Count(lastOp.sent, "command")
        /\ Count(lastOp.sent, "keygen") = 1 => lastOp.sent[1].type = "keygen"
        /\ (~Truthy(lastOp.keyWas) /\ (~Truthy(username) \/ ~Truthy(password))) =>
              /\ lastOp.result.exc # "none"
              /\ lastOp.sent = <<>>
        /\ (lastOp.net1 # NetUnused /\ KeygenFails(lastOp.net1)) =>
              /\ lastOp.result.exc # "none"
              /\ Len(lastOp.sent) = 1
              /\ Count(lastOp.sent, "command") = 0
        /\ (lastOp.net2 # NetUnused /\ CommandFails(lastOp.net2)) =>
              /\ lastOp.result.exc = "PanosException"
              /\ lastOp.sent[Len(lastOp.sent)].type = "command"
        /\ lastOp.result.exc = "none" => SentCommand(lastOp)

\* a request exchanged the key and its command call then met a transport
\* failure: two HTTP calls and the error
C18_Witness ==
    /\ lastOp.op = "request"
    /\ lastOp.net1 # NetUnused /\ ~KeygenFails(lastOp.net1)
    /\ lastOp.net2.k \in {"URLError", "HTTPError"}
    /\ Len(lastOp.sent) = 2
    /\ lastOp.result.exc = "PanosException"

\* key is the text of a <key> element under <result> of the answer
AnswerHasKey(root, key) ==
    \E i \in 1..Len(root.children) :
        /\ root.children[i].tag = "result"
        /\ \E j \in 1..Len(root.children[i].children) :
              /\ root.children[i].children[j].tag = "key"
              /\ root.children[i].children[j].text = key

C19_Step ==
    (constructed /\ nOps' = nOps + 1) =>
        \* self.api_key changes only in an operation that found no key held
        \* and whose key exchange succeeded, and then to the key it was given
        /\ api_key' # api_key =>
              /\ ~Truthy(api_key)
              /\ lastOp'.net1 # NetUnused /\ ~KeygenFails(lastOp'.net1)
              /\ AnswerHasKey(lastOp'.net1.body.root, api_key')
              /\ Truthy(api_key')
        \* a credential resolution that fails leaves it as it was, absent
        /\ (/\ ~Truthy(api_key)
            /\ \/ ~Truthy(username) \/ ~Truthy(password)
               \/ lastOp'.net1 # NetUnused /\ KeygenFails(lastOp'.net1)) =>
              /\ api_key' = api_key
              /\ ~Truthy(api_key')
        \* so the operation after a failed key exchange exchanges again
        /\ (/\ lastOp.op # "none" /\ lastOp.net1 # NetUnused
            /\ KeygenFails(lastOp.net1)) =>
              /\ Len(lastOp'.sent) > 0
              /\ lastOp'.sent[1].type = "keygen"
        \* a command call that fails leaves the key obtained for it cached
        /\ (SentCommand(lastOp') /\ CommandFails(lastOp'.net2)) =>
              /\ api_key' = CommandKey(lastOp')
              /\ Truthy(api_key')
        \* a held key is never cleared or replaced
        /\ Truthy(api_key) => api_key' = api_key

\* C19: self.api_key changes only on a successful key exchange; a failed
\* credential resolution leaves it absent and the next request exchanges
\* again; a request failing after the key was obtained leaves the key
\* cached; a key once set is never cleared or replaced
C19_KeyFrame == [][C19_Step]_vars

\* a failed key exchange, then a request that exchanged the key and whose
\* command call failed, then a request on the key that stayed cached
C19_Witness ==
    /\ constructed /\ ~Truthy(ctor_api_key)
    /\ nOps = 3 /\ wire.keygen = 2 /\ wire.command = 2
    /\ lastOp.op = "request" /\ lastOp.net1 = NetUnused
    /\ lastOp.keyWas = api_key /\ Truthy(api_key)
    /\ lastOp.result.exc = "PanosException"

-----------------------------------------------------------------------------
(* Claims about wait_for_job (SpecJob) *)

Statuses == [i \in 1..Len(fetches) |-> fetches[i].status]

\* C6: wait_for_job returns an outcome only in an iteration that fetched
\* status FIN, and in the first such iteration; success is true exactly
\* when that record's result is OK; PEND, PEND, FIN with OK gives success
\* after three fetches
C6_ReturnsOnFirstFin ==
    /\ jobEnd.exc = "none" =>
          /\ jobPc = "done"
          /\ Len(fetches) >= 1
          /\ fetches[Len(fetches)].status = "FIN"
          /\ jobEnd.val.success = (fetches[Len(fetches)].result = "OK")
    /\ \A i \in 1..Len(fetches) :
          fetches[i].status = "FIN" =>
              /\ i = Len(fetches)
              /\ jobPc = "done"
              /\ jobEnd.exc = "none"
    /\ (Statuses = <<"PEND", "PEND", "FIN">> /\ fetches[3].result = "OK") =>
          /\ jobEnd.exc = "none"
          /\ jobEnd.val.success = TRUE
          /\ wire.command = 3

\* the stream PEND, PEND, FIN with result OK has been fetched and returned
C6_Witness ==
    /\ Statuses = <<"PEND", "PEND", "FIN">>
    /\ fetches[3].result = "OK"
    /\ jobPc = "done"
    /\ jobEnd.exc = "none" /\ jobEnd.val.success = TRUE

\* C7 (as claimed): whatever the manager answers to the status fetches (a
\* non-success status, no job record, null data), a finished call has
\* either returned an outcome after FIN or failed with JOB_TIMEOUT carrying
\* the job id and the elapsed time
C7_EndsInOutcomeOrTimeout ==
    (jobPc = "done" /\ \A i \in 1..Len(fetches) : fetches[i].answered) =>
        \/ /\ jobEnd.exc = "none"
           /\ fetches[Len(fetches)].status = "FIN"
        \/ /\ jobEnd.exc = "PanosException"
           /\ jobEnd.code = "JOB_TIMEOUT"
           /\ jobEnd.details = [job_id |-> "job", elapsed |-> elapsed]

IsJobTimeout(end) == end.exc = "PanosException" /\ end.code = "JOB_TIMEOUT"

C20_Step ==
    \* the top of an iteration measures the elapsed time and decides on it:
    \* within the timeout the fetch follows, beyond it JOB_TIMEOUT, and no
    \* HTTP call either way
    /\ jobPc = "top" =>
          /\ elapsed' = now - start_time
          /\ elapsed' <= timeout => (jobPc' = "fetch" /\ jobEnd' = NoJobEnd)
          /\ elapsed' > timeout => (jobPc' = "done" /\ IsJobTimeout(jobEnd'))
          /\ fetches' = fetches /\ wire' = wire
    \* a fetch starts within the timeout; however long it takes, the elapsed
    \* time is not measured again, the call does not time out after it, and
    \* an answer with FIN gives an outcome
    /\ fetches' # fetches =>
          /\ jobPc = "fetch"
          /\ elapsed <= timeout
          /\ elapsed' = elapsed
          /\ ~IsJobTimeout(jobEnd')
          /\ fetches'[Len(fetches')].status = "FIN" => jobEnd'.exc = "none"
    \* JOB_TIMEOUT is raised at the top, without a fetch
    /\ (~IsJobTimeout(jobEnd) /\ IsJobTimeout(jobEnd')) =>
          /\ jobPc = "top"
          /\ fetches' = fetches /\ wire' = wire
    \* a returned outcome reports the elapsed time measured before its fetch
    /\ jobEnd'.exc = "none" =>
          /\ jobEnd'.val.elapsed = elapsed'
          /\ jobEnd'.val.elapsed <= timeout'
          /\ jobEnd'.val.elapsed <= now' - start_time'
    \* nothing is fetched once the call has ended
    /\ jobPc = "done" => (fetches' = fetches /\ wire' = wire /\ jobEnd' = jobEnd)

\* C20: wait_for_job checks the timeout only at the top of an iteration,
\* before the status fetch and never after it: a fetch started within the
\* timeout that returns FIN gives an outcome however late it ends, the
\* reported elapsed time is the one measured before the fetch and so never
\* exceeds the timeout, and JOB_TIMEOUT is raised without a further fetch
C20_TimeoutCheckedAtTopOnly == [][C20_Step]_vars

\* an outcome was returned by a fetch that started at the deadline and
\* ended after it
C20_Witness ==
    /\ jobPc = "done" /\ jobEnd.exc = "none"
    /\ jobEnd.val.elapsed = timeout
    /\ now - start_time > timeout
    /\ Len(fetches) >= 2


-----------------------------------------------------------------------------
(* Claims about is_upgrade_path_valid (SpecPath) *)

PathAsked == verOut.op = "is_upgrade_path_valid"

\* what a matrix says about going from one (major, minor, ...) to another,
\* read off the matrix and the numbers the two texts denote
MatrixHas(m, cur) == MatrixKey(cur[1], cur[2]) \in DOMAIN m.m
EntryOf(m, cur) == m.m[MatrixKey(cur[1], cur[2])].m
ListsDirect(m, cur, tgt) ==
    /\ MatrixHas(m, cur)
    /\ "direct_upgrade_to" \in DOMAIN EntryOf(m, cur)
    /\ \E i \in 1..Len(EntryOf(m, cur).direct_upgrade_to.l) :
          EntryOf(m, cur).direct_upgrade_to.l[i] = PyStr(MatrixKey(tgt[1], tgt[2]))
ListsIntermediate(m, cur, tgt) ==
    /\ MatrixHas(m, cur)
    /\ "intermediate_required" \in DOMAIN EntryOf(m, cur)
    /\ MatrixKey(tgt[1], tgt[2]) \in DOMAIN EntryOf(m, cur).intermediate_required.m
IntermediatesOf(m, cur, tgt) ==
    EntryOf(m, cur).intermediate_required.m[MatrixKey(tgt[1], tgt[2])]

\* C11: for every matrix, the empty one included, parseable current and
\* target that compare EQUAL give (true, []) and current GREATER than target
\* gives (false, []), whatever the matrix holds
C11_SameAndDowngradeIgnoreMatrix ==
    (PathAsked /\ Parseable(va) /\ Parseable(vb)) =>
        /\ LexCompare(va.fields, vb.fields) = 0 =>
              verOut.out = PathResult(TRUE, EmptyList)
        /\ LexCompare(va.fields, vb.fields) > 0 =>
              verOut.out = PathResult(FALSE, EmptyList)

\* a downgrade inside one major.minor was refused although the matrix lists
\* that major.minor as a direct target of itself
C11_Witness ==
    /\ PathAsked /\ Parseable(va) /\ Parseable(vb)
    /\ LexCompare(va.fields, vb.fields) > 0
    /\ ListsDirect(verOut.matrix, va.fields, vb.fields)
    /\ verOut.out = PathResult(FALSE, EmptyList)

\* C12: for parseable current < target the answer depends on the two
\* major.minor keys only: (false, []) when current's key is not in the
\* matrix; (true, []) when target's key is a direct target, also when it is
\* an intermediate_required key as well; else (true, the listed sequence)
\* when it is an intermediate_required key; else (false, []).  A patch-only
\* upgrade is valid only if the matrix lists the major.minor for itself, and
\* a false answer always has an empty sequence
C12_MatrixDecidesOnMajorMinor ==
    (PathAsked /\ Parseable(va) /\ Parseable(vb)
       /\ LexCompare(va.fields, vb.fields) < 0) =>
        /\ verOut.out.exc = "none"
        /\ ~MatrixHas(verOut.matrix, va.fields) =>
              verOut.out = PathResult(FALSE, EmptyList)
        /\ ListsDirect(verOut.matrix, va.fields, vb.fields) =>
              verOut.out = PathResult(TRUE, EmptyList)
        /\ (~ListsDirect(verOut.matrix, va.fields, vb.fields)
              /\ ListsIntermediate(verOut.matrix, va.fields, vb.fields)) =>
              verOut.out = PathResult(TRUE,
                              IntermediatesOf(verOut.matrix, va.fields, vb.fields))
        /\ (MatrixHas(verOut.matrix, va.fields)
              /\ ~ListsDirect(verOut.matrix, va.fields, vb.fields)
              /\ ~ListsIntermediate(verOut.matrix, va.fields, vb.fields)) =>
              verOut.out = PathResult(FALSE, EmptyList)
        /\ (va.fields[1] = vb.fields[1] /\ va.fields[2] = vb.fields[2]) =>
              (verOut.out.val.valid <=>
                  \/ ListsDirect(verOut.matrix, va.fields, va.fields)
                  \/ ListsIntermediate(verOut.matrix, va.fields, va.fields))
        /\ ~verOut.out.val.valid => verOut.out.val.intermediates = EmptyList

\* an upgrade whose target is both a direct target and an
\* intermediate_required key was answered (true, [])
C12_Witness ==
    /\ PathAsked /\ Parseable(va) /\ Parseable(vb)
    /\ LexCompare(va.fields, vb.fields) < 0
    /\ ListsDirect(verOut.matrix, va.fields, vb.fields)
    /\ ListsIntermediate(verOut.matrix, va.fields, vb.fields)
    /\ Truthy(IntermediatesOf(verOut.matrix, va.fields, vb.fields))
    /\ verOut.out = PathResult(TRUE, EmptyList)

\* C13: is_upgrade_path_valid never raises on version inputs: when either
\* text is not a version it returns (false, []), and INVALID_VERSION of the
\* strict comparator never comes out of it
C13_TotalOverVersions ==
    PathAsked =>
        /\ verOut.out.exc = "none"
        /\ (~Parseable(va) \/ ~Parseable(vb)) =>
              verOut.out = PathResult(FALSE, EmptyList)

\* a version and a non-empty text that is not a version were given, with a
\* matrix that has an entry for the version
C13_Witness ==
    /\ PathAsked /\ Parseable(va) /\ ~Parseable(vb) /\ Truthy(vb.text)
    /\ MatrixHas(verOut.matrix, va.fields)
    /\ verOut.out = PathResult(FALSE, EmptyList)


-----------------------------------------------------------------------------
(* Claims about the normaliser, extract_ha_info and the device lookups     *)
(* (SpecData)                                                              *)

Normalized == docOut.op = "parse_xml_response" /\ docOut.out.exc = "none"

\* the <result> element the normaliser reads, and the elements under it
ResultElems == FindAll(doc.root, "result")
ResultElem  == Head(ResultElems)
SubtreeElems ==
    {ResultElem} \cup
    { DescendantsOf(ResultElem.children)[i] :
        i \in 1..Len(DescendantsOf(ResultElem.children)) }

\* the normalized value of an element of the subtree: the data itself for
\* <result>, and what the normaliser makes of the element below it
ValueOf(e) == IF e = ResultElem THEN docOut.out.val.data ELSE xml_element_to_dict(e)

ChildrenTagged(e, tag) == SelectSeq(e.children, LAMBDA c : c.tag = tag)
ChildTags(e) == { e.children[i].tag : i \in 1..Len(e.children) }

\* n >= 2 same-named children are one list of n entries in document order;
\* a single child is a value that is not a list
ChildrenRule(e) ==
    \A tag \in ChildTags(e) :
        /\ ValueOf(e).t = "map"
        /\ tag \in DOMAIN ValueOf(e).m
        /\ IF Len(ChildrenTagged(e, tag)) >= 2
           THEN ValueOf(e).m[tag] =
                   PyList([i \in 1..Len(ChildrenTagged(e, tag)) |->
                              xml_element_to_dict(ChildrenTagged(e, tag)[i])])
           ELSE /\ ValueOf(e).m[tag] = xml_element_to_dict(ChildrenTagged(e, tag)[1])
                /\ ValueOf(e).m[tag].t # "list"

IsLeaf(e) == DOMAIN e.attrib = {} /\ Len(e.children) = 0

\* an element with no attributes, no children and no text is null
NullRule(e) == (IsLeaf(e) /\ ~Truthy(e.text)) => ValueOf(e) = PyNone

\* as claimed: a leaf with only text is its text string
LeafIsItsText(e) == (IsLeaf(e) /\ Truthy(e.text)) => ValueOf(e) = e.text

\* in the code: a leaf with only text is its text without the surrounding
\* whitespace, and null when nothing but whitespace is in it
LeafIsItsTrimmedText(e) ==
    (IsLeaf(e) /\ Truthy(e.text)) =>
        ValueOf(e) = IF NonBlank(e.text) THEN PyStr(Strip(e.text.v)) ELSE PyNone

\* C14 (as claimed): in the normalized data of a <result> subtree, n >= 2
\* same-named children become one list of n entries in document order, a
\* single child stays a non-list value, a leaf with only text becomes its
\* text string, an element with no attributes, children or text becomes
\* null; without a <result> element data is the empty map
C14_NormalizedShape ==
    Normalized =>
        IF Len(ResultElems) = 0 THEN docOut.out.val.data = EmptyDict
        ELSE \A e \in SubtreeElems :
                ChildrenRule(e) /\ NullRule(e) /\ LeafIsItsText(e)

\* C14 (amended): the same, with the text of a leaf taken without its
\* leading and trailing whitespace, and a leaf whose text is only
\* whitespace counted as having no text (it becomes null)
C14_NormalizedShapeTrimmed ==
    Normalized =>
        IF Len(ResultElems) = 0 THEN docOut.out.val.data = EmptyDict
        ELSE \A e \in SubtreeElems :
                ChildrenRule(e) /\ NullRule(e) /\ LeafIsItsTrimmedText(e)

\* three same-named children, two of them empty, were normalized to a list
\* of three entries
C14_Witness ==
    /\ Normalized
    /\ Len(ResultElems) = 1
    /\ Len(ChildrenTagged(ResultElem, "a")) = 3
    /\ ChildrenTagged(ResultElem, "a")[1] = Empty("a")
    /\ docOut.out.val.data.m["a"].t = "list"
    /\ Len(docOut.out.val.data.m["a"].l) = 3
    /\ docOut.out.val.data.m["a"].l[1] = PyNone
    /\ docOut.out.val.data.m["a"].l[2].t = "str"

HaAsked == docOut.op = "extract_ha_info"

\* the value under a key of a normalized value; null when the value is not
\* a map or has no such key
Sub(v, key) == IF v.t = "map" /\ key \in DOMAIN v.m THEN v.m[key] ELSE PyNone

HaKeyMissing(response, info, key) ==
    LET at == Sub(Sub(response.data, "group"), info)
    IN  at.t # "map" \/ key \notin DOMAIN at.m

\* C15 (as claimed): extract_ha_info never fails: for every response of the
\* normaliser (data an empty map, null, a string, or a map whose group,
\* local-info or peer-info is missing, null, a string or a list) it returns
\* a snapshot with all its fields, enabled true exactly when group is
\* present and non-empty, and each missing field at its fallback
C15_ExtractNeverFails ==
    HaAsked =>
        /\ docOut.out.exc = "none"
        /\ DOMAIN docOut.out.val =
              {"enabled", "mode", "state", "peer_state", "running_sync",
               "running_sync_enabled", "preemptive", "priority", "peer_address", "raw"}
        /\ docOut.out.val.enabled = Truthy(Sub(docOut.response.data, "group"))
        /\ HaKeyMissing(docOut.response, "local-info", "mode") =>
              docOut.out.val.mode = PyStr(S_standalone)
        /\ HaKeyMissing(docOut.response, "local-info", "state") =>
              docOut.out.val.state = PyStr(S_unknown)
        /\ HaKeyMissing(docOut.response, "peer-info", "state") =>
              docOut.out.val.peer_state = PyStr(S_unknown)

LookupDone == lastOp.op \in {"get_device_by_name", "get_device_by_serial"}

\* the managed devices the answer lists, read off the document
DeviceEntries ==
    IF Len(ResultElems) = 0 \/ Len(ChildrenTagged(ResultElem, "devices")) = 0 THEN <<>>
    ELSE ChildrenTagged(Head(ChildrenTagged(ResultElem, "devices")), "entry")

ChildText(e, tag) ==
    IF Len(ChildrenTagged(e, tag)) = 0 \/ ~Truthy(Head(ChildrenTagged(e, tag)).text)
    THEN <<>> ELSE Head(ChildrenTagged(e, tag)).text.v

EntryHostname(e) == ChildText(e, "hostname")
EntrySerial(e) == IF "name" \in DOMAIN e.attrib THEN e.attrib["name"] ELSE ChildText(e, "serial")

EntryMatches(e) ==
    IF lastOp.op = "get_device_by_name"
    THEN Lower(EntryHostname(e)) = Lower(lastOp.arg)
    ELSE EntrySerial(e) = lastOp.arg

MatchingEntries == { i \in 1..Len(DeviceEntries) : EntryMatches(DeviceEntries[i]) }
FirstMatching ==
    DeviceEntries[CHOOSE i \in MatchingEntries : \A j \in MatchingEntries : i <= j]

\* C16 (as claimed): for every answer to the managed-device list fetch a
\* lookup ends in one of three ways: DEVICE_LOOKUP_FAILED when the answer
\* does not report success; else the summary of the first entry in list
\* order that matches (hostname without regard to case, serial exactly);
\* else DEVICE_NOT_FOUND, also for an empty list and for entries whose
\* hostname element is empty
C16_LookupEndsInOneOfThree ==
    (LookupDone /\ doc.wellformed) =>
        IF DocStatus(doc.root) # S_success
        THEN /\ lastOp.result.exc = "PanosException"
             /\ lastOp.result.code = "DEVICE_LOOKUP_FAILED"
        ELSE IF MatchingEntries # {}
        THEN /\ lastOp.result.exc = "none"
             /\ lastOp.result.val.serial = PyStr(EntrySerial(FirstMatching))
             /\ EntryHostname(FirstMatching) # <<>> =>
                   lastOp.result.val.hostname = PyStr(EntryHostname(FirstMatching))
        ELSE /\ lastOp.result.exc = "PanosException"
             /\ lastOp.result.code = "DEVICE_NOT_FOUND"

-----------------------------------------------------------------------------
(* Claims about concurrent callers (SpecConc) *)

\* C17: as long as no two calls of _make_request have overlapped, at most
\* one key exchange has succeeded, and none on an instance built with a key
C17_SequentialCallersExchangeOnce ==
    /\ ~overlapped => exchanged <= 1
    /\ Truthy(ctor_api_key) => wire.keygen = 0
    /\ exchanged <= wire.keygen
    /\ exchanged > 0 => Truthy(api_key)

\* the duplicate key exchange: on an instance with username/password and no
\* key, both callers have passed the check of line 77 and each has issued a
\* key-exchange call that succeeded
C17_Witness ==
    /\ ctor_api_key = PyNone /\ Truthy(username) /\ Truthy(password)
    /\ overlapped
    /\ wire.keygen = 2 /\ exchanged = 2

====
